---- MODULE Spec2Model ----
(***************************************************************************)
(* Spark neighbor discovery engine (openr/spark/Spark.cpp).                *)
(*                                                                         *)
(* The engine is a single-threaded event loop.  Every handler (packet      *)
(* receipt, timer expiry, interface update, stop) runs to completion, so   *)
(* each handler is one action.  Handlers are written as operators over a   *)
(* record `s` holding the engine's fields; an action commits the record    *)
(* the handler returns.                                                    *)
(***************************************************************************)
EXTENDS Integers, Sequences, FiniteSets, TLC

VARIABLES
  enableV4,                 \* Spark::enableV4_ (fixed at construction)
  areaIdRegexList,          \* Spark::areaIdRegexList_ (fixed at construction)
  interfaceDb,              \* Spark::interfaceDb_ : ifName -> Interface
  spark2Neighbors,          \* Spark::spark2Neighbors_ : ifName -> nodeName -> Spark2Neighbor
  ifNameToActiveNeighbors,  \* Spark::ifNameToActiveNeighbors_ : ifName -> set of nodeName
  allocatedLabels,          \* Spark::allocatedLabels_
  mySeqNum,                 \* Spark::mySeqNum_
  ifNameToHelloTimers,      \* Spark::ifNameToHelloTimers_ (key set)
  ifNameToHeartbeatTimers,  \* Spark::ifNameToHeartbeatTimers_ (key set)
  timeSeriesVector,         \* Spark::timeSeriesVector_ : index -> count inside the horizon
  mcastGroups,              \* kernel side of the socket: ifIndexes the group is joined on
  neighborUpdatesQueue,     \* events pushed to neighborUpdatesQueue_
  io,                       \* system calls made by the last handler (send / join / leave)
  op,                       \* the last handler that ran and how far it got
  ifDbSnapshot,             \* the snapshot handed to the last processInterfaceUpdates
  pc,                       \* "running", "stopped" (after stop()), "aborted" (terminate)
  peer,                     \* a second engine on the same link (its fields as a record)
  wire,                     \* packets in flight between the two engines, in order
  helloTicks,               \* how often each engine's hello timer has fired
  sinceHeartbeat            \* time units since the last heartbeat of nodeB was handled

vars == <<enableV4, areaIdRegexList, interfaceDb, spark2Neighbors,
          ifNameToActiveNeighbors, allocatedLabels, mySeqNum, ifNameToHelloTimers,
          ifNameToHeartbeatTimers, timeSeriesVector, mcastGroups,
          neighborUpdatesQueue, io, op, ifDbSnapshot, pc, peer, wire, helloTicks,
          sinceHeartbeat>>

\* The second engine and the link to it; untouched where one engine runs alone.
pairVars == <<peer, wire, helloTicks>>

-----------------------------------------------------------------------------
(* Program constants.                                                      *)

kMinIpv6Mtu == 1280
kSparkHopLimit == 255
kNumRestartingPktSent == 3

\* Constants::kSrLocalRange (Constants.h).  The range is scaled down to three
\* labels so that exhaustion is within reach of a handful of neighbors.
kSrLocalRangeFirst == 10
kSrLocalRangeSecond == 12

\* Constants::kMaxAllowedPps and Constants::kNumTimeSeries, scaled down.
kMaxAllowedPps == 1
kNumTimeSeries == 1

\* thrift::KvStore_constants::kDefaultArea()
kDefaultArea == "0"

\* Engine identity and timing configuration (constructor arguments).
myNodeName == "nodeA"
myDomainName == "domainD"
kLowestSupportedVersion == 2
myHandshakeTime == 5
myNegotiateHoldTime == 6
myHeartbeatHoldTime == 7
myHoldTime == 8

-----------------------------------------------------------------------------
(* Bounds of the model.                                                    *)

MaxSeqNum == 2        \* mySeqNum is capped: sends are disabled at the cap
MaxEvents == 3        \* neighborUpdatesQueue is capped
MaxLeak == 1          \* labels below the range that exhaustion may leave behind

IfSeq == <<"eth0", "eth1">>           \* std::set<std::string> iteration order
IfNames == {IfSeq[i] : i \in DOMAIN IfSeq}
NodeSeq == <<"nodeB", "nodeC">>
NodeNames == {NodeSeq[i] : i \in DOMAIN NodeSeq}
IfIndexes == {1, 2}

NoTimer == 0          \* a null timer handle

-----------------------------------------------------------------------------
(* Generic helpers.                                                        *)

Max(a, b) == IF a >= b THEN a ELSE b

SeqOf(order, S) == SelectSeq(order, LAMBDA x : x \in S)

Restrict(f, S) == [x \in S |-> f[x]]

Extend(f, k, v) == [x \in (DOMAIN f) \cup {k} |-> IF x = k THEN v ELSE f[x]]

\* The engine's fields as one record, and the commit of a handler's result.
Cur ==
  [interfaceDb |-> interfaceDb,
   spark2Neighbors |-> spark2Neighbors,
   ifNameToActiveNeighbors |-> ifNameToActiveNeighbors,
   allocatedLabels |-> allocatedLabels,
   mySeqNum |-> mySeqNum,
   ifNameToHelloTimers |-> ifNameToHelloTimers,
   ifNameToHeartbeatTimers |-> ifNameToHeartbeatTimers,
   timeSeriesVector |-> timeSeriesVector,
   mcastGroups |-> mcastGroups,
   neighborUpdatesQueue |-> neighborUpdatesQueue,
   io |-> <<>>,
   fsm |-> <<>>,           \* the calls of getNextState the handler made
   res |-> "-",            \* where the handler returned
   exc |-> FALSE,          \* an exception is propagating
   check |-> FALSE]        \* a CHECK failed (the process aborts)

Commit(s) ==
  /\ interfaceDb' = s.interfaceDb
  /\ spark2Neighbors' = s.spark2Neighbors
  /\ ifNameToActiveNeighbors' = s.ifNameToActiveNeighbors
  /\ allocatedLabels' = s.allocatedLabels
  /\ mySeqNum' = s.mySeqNum
  /\ ifNameToHelloTimers' = s.ifNameToHelloTimers
  /\ ifNameToHeartbeatTimers' = s.ifNameToHeartbeatTimers
  /\ timeSeriesVector' = s.timeSeriesVector
  /\ mcastGroups' = s.mcastGroups
  /\ neighborUpdatesQueue' = s.neighborUpdatesQueue
  /\ io' = s.io
  /\ UNCHANGED <<enableV4, areaIdRegexList>>

Op(name, ifName, node, hopLimit) ==
  [name |-> name, ifName |-> ifName, node |-> node, hopLimit |-> hopLimit, info |-> "-",
   fsm |-> <<>>,
   \* an interface update handed the snapshot of the update that returned just before
   repeat |-> FALSE]

-----------------------------------------------------------------------------
(* Neighbor finite-state machine: Spark::stateMap_ and Spark::getNextState. *)

IDLE == "IDLE"
WARM == "WARM"
NEGOTIATE == "NEGOTIATE"
ESTABLISHED == "ESTABLISHED"
RESTART == "RESTART"
NullOpt == "UNEXPECTED"

\* SparkNeighState and SparkNeighEvent as indexes into stateMap_ (1-based).
StateIndex(st) ==
  CASE st = IDLE -> 1 [] st = WARM -> 2 [] st = NEGOTIATE -> 3
    [] st = ESTABLISHED -> 4 [] st = RESTART -> 5

HELLO_RCVD_INFO == "HELLO_RCVD_INFO"
HELLO_RCVD_NO_INFO == "HELLO_RCVD_NO_INFO"
HELLO_RCVD_RESTART == "HELLO_RCVD_RESTART"
HEARTBEAT_RCVD == "HEARTBEAT_RCVD"
HANDSHAKE_RCVD == "HANDSHAKE_RCVD"
HEARTBEAT_TIMER_EXPIRE == "HEARTBEAT_TIMER_EXPIRE"
NEGOTIATE_TIMER_EXPIRE == "NEGOTIATE_TIMER_EXPIRE"
GR_TIMER_EXPIRE == "GR_TIMER_EXPIRE"
NEGOTIATION_FAILURE == "NEGOTIATION_FAILURE"

EventIndex(ev) ==
  CASE ev = HELLO_RCVD_INFO -> 1 [] ev = HELLO_RCVD_NO_INFO -> 2
    [] ev = HELLO_RCVD_RESTART -> 3 [] ev = HEARTBEAT_RCVD -> 4
    [] ev = HANDSHAKE_RCVD -> 5 [] ev = HEARTBEAT_TIMER_EXPIRE -> 6
    [] ev = NEGOTIATE_TIMER_EXPIRE -> 7 [] ev = GR_TIMER_EXPIRE -> 8
    [] ev = NEGOTIATION_FAILURE -> 9

\* The table with ESTABLISHED sent to WARM by a restarting hello.
stateMapMutant ==
  << <<WARM, WARM, NullOpt, NullOpt, NullOpt, NullOpt, NullOpt, NullOpt, NullOpt>>,
     <<NEGOTIATE, NullOpt, NullOpt, NullOpt, NullOpt, NullOpt, NullOpt, NullOpt, NullOpt>>,
     <<NullOpt, NullOpt, NullOpt, NullOpt, ESTABLISHED, NullOpt, WARM, NullOpt, WARM>>,
     <<NullOpt, IDLE, WARM, ESTABLISHED, NullOpt, IDLE, NullOpt, NullOpt, NullOpt>>,
     <<ESTABLISHED, NullOpt, NullOpt, NullOpt, NullOpt, NullOpt, NullOpt, IDLE, NullOpt>> >>

stateMap ==
  << \* IDLE
     <<WARM, WARM, NullOpt, NullOpt, NullOpt, NullOpt, NullOpt, NullOpt, NullOpt>>,
     \* WARM
     <<NEGOTIATE, NullOpt, NullOpt, NullOpt, NullOpt, NullOpt, NullOpt, NullOpt, NullOpt>>,
     \* NEGOTIATE
     <<NullOpt, NullOpt, NullOpt, NullOpt, ESTABLISHED, NullOpt, WARM, NullOpt, WARM>>,
     \* ESTABLISHED
     <<NullOpt, IDLE, RESTART, ESTABLISHED, NullOpt, IDLE, NullOpt, NullOpt, NullOpt>>,
     \* RESTART
     <<ESTABLISHED, NullOpt, NullOpt, NullOpt, NullOpt, NullOpt, NullOpt, IDLE, NullOpt>> >>

\* A table that keeps a WARM neighbor WARM when a hello reflects us.
getNextStateMutant(currState, event) ==
  IF currState = WARM /\ event = HELLO_RCVD_INFO THEN WARM
  ELSE stateMap[StateIndex(currState)][EventIndex(event)]

\* The table's answer; NullOpt is the case in which CHECK(nextState.has_value()) fails.
getNextState(currState, event) == stateMap[StateIndex(currState)][EventIndex(event)]

\* Spark2Neighbor as constructed by processHelloMsg (state IDLE, everything else unset).
Spark2Neighbor(label, seqNum, area) ==
  [label |-> label,
   seqNum |-> seqNum,
   state |-> IDLE,
   area |-> area,
   transportAddressV4 |-> -1,
   transportAddressV6 |-> -1,
   kvStoreCmdPort |-> 0,
   openrCtrlThriftPort |-> 0,
   heartbeatHoldTime |-> 0,
   gracefulRestartHoldTime |-> 0,
   negotiateTimer |-> NoTimer,
   negotiateHoldTimer |-> NoTimer,
   heartbeatHoldTimer |-> NoTimer,
   gracefulRestartHoldTimer |-> NoTimer,
   rtt |-> 0,
   rttLatest |-> 0,
   neighborTimestamp |-> 0,
   localTimestamp |-> 0]

-----------------------------------------------------------------------------
(* System calls.  `env` is what the environment answers during one handler: *)
(* env.size is the serialized size of a packet, env.sendOk whether          *)
(* sendMessage sends it whole, env.joinOk[ifName] / env.leaveOk[ifName]     *)
(* whether the kernel accepts the membership change asked for ifName.       *)

IoRec(call, type, ifIndex, size, result) ==
  [call |-> call, type |-> type, ifIndex |-> ifIndex, size |-> size, result |-> result,
   to |-> "-", adjEst |-> FALSE, solicit |-> FALSE, restarting |-> FALSE,
   seqNum |-> 0, neighborInfos |-> <<>>, area |-> "-", value |-> 0]

\* setsockopt(IPV6_JOIN_GROUP / IPV6_LEAVE_GROUP): joining a group twice on one
\* ifIndex and leaving a group that was not joined are errors of the kernel.
SetsockoptOk(s, ifIndex, join, kernOk) ==
  IF join THEN kernOk /\ ifIndex \notin s.mcastGroups
          ELSE kernOk /\ ifIndex \in s.mcastGroups

\* toggleMcastGroup: the engine state after the call (its return value is SetsockoptOk).
toggleMcastGroup(s, ifIndex, join, kernOk) ==
  LET ok == SetsockoptOk(s, ifIndex, join, kernOk)
      rec == IoRec(IF join THEN "join" ELSE "leave", "-", ifIndex, 0,
                   IF ok THEN "ok" ELSE "failed")
  IN [s EXCEPT !.io = Append(@, rec),
               !.mcastGroups = IF ~ok THEN @
                               ELSE IF join THEN @ \cup {ifIndex} ELSE @ \ {ifIndex}]

\* A size check that lets one byte more through.
PacketTooBigMutant(size) == kMinIpv6Mtu + 1 < size

\* `if (kMinIpv6Mtu < packet.size())` of the three send paths.
PacketTooBig(size) == kMinIpv6Mtu < size

\* The tail shared by sendHelloMsg, sendHandshakeMsg and sendHeartbeatMsg: size
\* check, IoProvider::sendMessage, and the check of its result.
SendPacket(s, rec, env) ==
  LET result == IF PacketTooBig(env.size) THEN "too_big"
                ELSE IF env.sendOk THEN "sent" ELSE "send_failed"
  IN [s EXCEPT !.io = Append(@, [rec EXCEPT !.size = env.size, !.result = result])]

-----------------------------------------------------------------------------
(* Events to LinkMonitor and the active-neighbor collection.                *)

NEIGHBOR_UP == "NEIGHBOR_UP"
NEIGHBOR_DOWN == "NEIGHBOR_DOWN"
NEIGHBOR_RESTARTING == "NEIGHBOR_RESTARTING"
NEIGHBOR_RESTARTED == "NEIGHBOR_RESTARTED"
NEIGHBOR_RTT_CHANGE == "NEIGHBOR_RTT_CHANGE"

notifySparkNeighborEvent(s, eventType, ifName, nodeName, nbr) ==
  [s EXCEPT !.neighborUpdatesQueue =
     Append(@, [eventType |-> eventType, ifName |-> ifName, nodeName |-> nodeName,
                rttUs |-> nbr.rtt, label |-> nbr.label, area |-> nbr.area])]

\* Replace one neighbor's record.
SetNbr(s, ifName, nodeName, nbr) ==
  [s EXCEPT !.spark2Neighbors[ifName] = Extend(@, nodeName, nbr)]

\* allocatedLabels_.erase(neighbor.label); ifNeighbors.erase(neighborName);
EraseNbr(s, ifName, nodeName) ==
  [s EXCEPT !.allocatedLabels = @ \ {s.spark2Neighbors[ifName][nodeName].label},
            !.spark2Neighbors[ifName] = Restrict(@, (DOMAIN @) \ {nodeName})]

\* A neighborUpWrapper that forgets the active neighbors.
neighborUpWrapperMutant(s, ifName, nodeName) ==
  LET nbr0 == s.spark2Neighbors[ifName][nodeName]
      nbr == [nbr0 EXCEPT !.negotiateTimer = NoTimer,
                          !.negotiateHoldTimer = NoTimer,
                          !.heartbeatHoldTimer = nbr0.heartbeatHoldTime]
  IN notifySparkNeighborEvent(SetNbr(s, ifName, nodeName, nbr), NEIGHBOR_UP, ifName,
                              nodeName, nbr)

neighborUpWrapper(s, ifName, nodeName) ==
  LET nbr0 == s.spark2Neighbors[ifName][nodeName]
      nbr == [nbr0 EXCEPT !.negotiateTimer = NoTimer,
                          !.negotiateHoldTimer = NoTimer,
                          !.heartbeatHoldTimer = nbr0.heartbeatHoldTime]
      s1 == SetNbr(s, ifName, nodeName, nbr)
      act == s1.ifNameToActiveNeighbors
      s2 == [s1 EXCEPT !.ifNameToActiveNeighbors =
               Extend(act, ifName,
                      (IF ifName \in DOMAIN act THEN act[ifName] ELSE {}) \cup {nodeName})]
  IN notifySparkNeighborEvent(s2, NEIGHBOR_UP, ifName, nodeName, nbr)

\* A neighborDownWrapper that leaves the neighbor among the active ones.
neighborDownWrapperMutant(s, ifName, nodeName) ==
  notifySparkNeighborEvent(s, NEIGHBOR_DOWN, ifName, nodeName,
                           s.spark2Neighbors[ifName][nodeName])

neighborDownWrapper(s, ifName, nodeName) ==
  LET nbr == s.spark2Neighbors[ifName][nodeName]
      s1 == notifySparkNeighborEvent(s, NEIGHBOR_DOWN, ifName, nodeName, nbr)
      act == s1.ifNameToActiveNeighbors
  IN IF ifName \notin DOMAIN act THEN s1
     ELSE LET rest == act[ifName] \ {nodeName}
          IN [s1 EXCEPT !.ifNameToActiveNeighbors =
                IF rest = {} THEN Restrict(act, (DOMAIN act) \ {ifName})
                ELSE [act EXCEPT ![ifName] = rest]]

-----------------------------------------------------------------------------
(* Label allocation: Spark::getNewLabelForIface.                            *)

\* The label the probe from the back of the range stops at: the highest label not
\* above kSrLocalRange.second that is not allocated (the loop does not stop at
\* kSrLocalRange.first).
ProbeFromBack(labels) ==
  CHOOSE l \in (kSrLocalRangeFirst - Cardinality(labels) - 1)..kSrLocalRangeSecond :
    /\ l \notin labels
    /\ \A m \in (l + 1)..kSrLocalRangeSecond : m \in labels

\* A getNewLabelForIface that never tries the label of the ifIndex.
getNewLabelForIfaceMutant(s, ifName) ==
  LET label == ProbeFromBack(s.allocatedLabels)
  IN [s |-> [s EXCEPT !.allocatedLabels = @ \cup {label}], label |-> label,
      thrown |-> label < kSrLocalRangeFirst]

\* Returns the engine state (the label is inserted in either case), the label, and
\* whether std::runtime_error is thrown.
getNewLabelForIface(s, ifName) ==
  LET first == kSrLocalRangeFirst + s.interfaceDb[ifName].ifIndex
  IN IF first \notin s.allocatedLabels
     THEN [s |-> [s EXCEPT !.allocatedLabels = @ \cup {first}], label |-> first,
           thrown |-> FALSE]
     ELSE LET label == ProbeFromBack(s.allocatedLabels)
          IN [s |-> [s EXCEPT !.allocatedLabels = @ \cup {label}], label |-> label,
              thrown |-> label < kSrLocalRangeFirst]

-----------------------------------------------------------------------------
(* Interface registry: processInterfaceUpdates and its three phases.        *)

EmptyMap == [x \in {} |-> 0]

\* folly::CIDRNetwork is pair<IPAddress, prefix length>; std::set orders the pairs.
\* An address is modelled as a number, a network as <<address, length>>.
NetLess(a, b) == a[1] < b[1] \/ (a[1] = b[1] /\ a[2] < b[2])

LowestNetwork(S) == CHOOSE n \in S : \A m \in S \ {n} : NetLess(n, m)

Interface(ifIndex, v4Network, v6LinkLocalNetwork) ==
  [ifIndex |-> ifIndex, v4Network |-> v4Network,
   v6LinkLocalNetwork |-> v6LinkLocalNetwork]

\* Interface::operator== (Spark.h): all three fields are compared.
InterfaceEq(a, b) ==
  /\ a.ifIndex = b.ifIndex
  /\ a.v4Network = b.v4Network
  /\ a.v6LinkLocalNetwork = b.v6LinkLocalNetwork

\* The entry of a snapshot for one interface.  `present` tells whether the
\* snapshot has the interface at all; v4 and v6ll are its IPv4 networks and
\* its IPv6 link-local networks (other IPv6 networks are dropped on sight).
IfInfo(present, isUp, ifIndex, v4, v6ll) ==
  [present |-> present, isUp |-> isUp, ifIndex |-> ifIndex, v4 |-> v4, v6ll |-> v6ll]

AbsentIf == IfInfo(FALSE, FALSE, 0, {}, {})

\* A filter that lets an interface that is down through.
ValidInterfaceMutant(info) ==
  /\ info.present
  /\ info.v6ll # {}
  /\ (enableV4 => info.v4 # {})

\* The filter of processInterfaceUpdates.
ValidInterface(info) ==
  /\ info.present
  /\ info.isUp
  /\ info.v6ll # {}
  /\ (enableV4 => info.v4 # {})

\* newInterfaceDb of processInterfaceUpdates.
NewInterfaceDb(ifDb) ==
  [i \in {j \in DOMAIN ifDb : ValidInterface(ifDb[j])} |->
     Interface(ifDb[i].ifIndex,
               IF enableV4 THEN LowestNetwork(ifDb[i].v4) ELSE <<0, 32>>,
               LowestNetwork(ifDb[i].v6ll))]

\* The loop over one interface's neighbors in deleteInterfaceFromDb.
RECURSIVE DeclareNeighborsDown(_, _, _)
DeclareNeighborsDown(s, ifName, nodes) ==
  IF nodes = <<>> THEN s
  ELSE LET n == Head(nodes)
           nbr == s.spark2Neighbors[ifName][n]
           s1 == [s EXCEPT !.allocatedLabels = @ \ {nbr.label}]
           s2 == IF nbr.transportAddressV6 = -1 \/
                    (enableV4 /\ nbr.transportAddressV4 = -1)
                 THEN s1
                 ELSE neighborDownWrapper(s1, ifName, n)
       IN DeclareNeighborsDown(s2, ifName, Tail(nodes))

\* A removal that forgets to erase the hello timer.
DeleteOneInterfaceMutant(s, ifName, env) ==
  LET s1 == DeclareNeighborsDown(s, ifName,
                                 SeqOf(NodeSeq, DOMAIN s.spark2Neighbors[ifName]))
      s2 == [s1 EXCEPT
               !.spark2Neighbors = Restrict(@, (DOMAIN @) \ {ifName}),
               !.ifNameToHeartbeatTimers = @ \ {ifName}]
      s3 == toggleMcastGroup(s2, s2.interfaceDb[ifName].ifIndex, FALSE,
                             env.leaveOk[ifName])
  IN [s3 EXCEPT !.interfaceDb = Restrict(@, (DOMAIN @) \ {ifName})]

\* The body of deleteInterfaceFromDb for one interface.
DeleteOneInterface(s, ifName, env) ==
  LET s1 == DeclareNeighborsDown(s, ifName,
                                 SeqOf(NodeSeq, DOMAIN s.spark2Neighbors[ifName]))
      s2 == [s1 EXCEPT
               !.spark2Neighbors = Restrict(@, (DOMAIN @) \ {ifName}),
               !.ifNameToHeartbeatTimers = @ \ {ifName}]
      s3 == toggleMcastGroup(s2, s2.interfaceDb[ifName].ifIndex, FALSE,
                             env.leaveOk[ifName])
  IN [s3 EXCEPT !.ifNameToHelloTimers = @ \ {ifName},
                !.interfaceDb = Restrict(@, (DOMAIN @) \ {ifName})]

RECURSIVE deleteInterfaceFromDb(_, _, _)
deleteInterfaceFromDb(s, toDel, env) ==
  IF toDel = <<>> THEN s
  ELSE deleteInterfaceFromDb(DeleteOneInterface(s, Head(toDel), env), Tail(toDel), env)

\* An addition that stores the interface entry before it joins the group.
AddOneInterfaceMutant(s, ifName, newInterfaceDb, env) ==
  LET newInterface == newInterfaceDb[ifName]
      joined == SetsockoptOk(s, newInterface.ifIndex, TRUE, env.joinOk[ifName])
      s1 == toggleMcastGroup(s, newInterface.ifIndex, TRUE, env.joinOk[ifName])
  IN IF ifName \in DOMAIN s1.interfaceDb \/ ifName \in DOMAIN s1.spark2Neighbors
     THEN [s1 EXCEPT !.check = TRUE]
     ELSE IF ~joined
     THEN [s1 EXCEPT !.exc = TRUE, !.interfaceDb = Extend(@, ifName, newInterface)]
     ELSE [s1 EXCEPT
             !.interfaceDb = Extend(@, ifName, newInterface),
             !.spark2Neighbors = Extend(@, ifName, EmptyMap),
             !.ifNameToHeartbeatTimers = @ \cup {ifName},
             !.ifNameToHelloTimers = @ \cup {ifName}]

\* The body of addInterfaceToDb for one interface.
AddOneInterface(s, ifName, newInterfaceDb, env) ==
  LET newInterface == newInterfaceDb[ifName]
      joined == SetsockoptOk(s, newInterface.ifIndex, TRUE, env.joinOk[ifName])
      s1 == toggleMcastGroup(s, newInterface.ifIndex, TRUE, env.joinOk[ifName])
  IN IF ~joined THEN [s1 EXCEPT !.exc = TRUE]
     ELSE IF ifName \in DOMAIN s1.interfaceDb \/ ifName \in DOMAIN s1.spark2Neighbors
     THEN [s1 EXCEPT !.check = TRUE]
     ELSE [s1 EXCEPT
             !.interfaceDb = Extend(@, ifName, newInterface),
             !.spark2Neighbors = Extend(@, ifName, EmptyMap),
             !.ifNameToHeartbeatTimers = @ \cup {ifName},
             !.ifNameToHelloTimers = @ \cup {ifName}]

RECURSIVE addInterfaceToDb(_, _, _, _)
addInterfaceToDb(s, toAdd, newInterfaceDb, env) ==
  IF toAdd = <<>> \/ s.exc \/ s.check THEN s
  ELSE addInterfaceToDb(AddOneInterface(s, Head(toAdd), newInterfaceDb, env),
                        Tail(toAdd), newInterfaceDb, env)

\* An update that leaves and joins whether or not the ifIndex changed.
UpdateOneInterfaceMutant(s, ifName, newInterfaceDb, env) ==
  LET interface == s.interfaceDb[ifName]
      newInterface == newInterfaceDb[ifName]
      s1 == toggleMcastGroup(s, interface.ifIndex, FALSE, env.leaveOk[ifName])
      joined == SetsockoptOk(s1, newInterface.ifIndex, TRUE, env.joinOk[ifName])
      s2 == toggleMcastGroup(s1, newInterface.ifIndex, TRUE, env.joinOk[ifName])
  IN IF ~joined THEN [s2 EXCEPT !.exc = TRUE]
     ELSE [s2 EXCEPT !.interfaceDb[ifName] = newInterface]

\* An update that stores the new entry only when the ifIndex has changed.
UpdateOneInterfaceKeeps(s, ifName, newInterfaceDb, env) ==
  LET interface == s.interfaceDb[ifName]
      newInterface == newInterfaceDb[ifName]
      s1 == toggleMcastGroup(s, interface.ifIndex, FALSE, env.leaveOk[ifName])
      joined == SetsockoptOk(s1, newInterface.ifIndex, TRUE, env.joinOk[ifName])
      s2 == toggleMcastGroup(s1, newInterface.ifIndex, TRUE, env.joinOk[ifName])
  IN IF newInterface.ifIndex = interface.ifIndex THEN s
     ELSE IF ~joined THEN [s2 EXCEPT !.exc = TRUE]
     ELSE [s2 EXCEPT !.interfaceDb[ifName] = newInterface]

\* The body of updateInterfaceInDb for one interface.
UpdateOneInterface(s, ifName, newInterfaceDb, env) ==
  LET interface == s.interfaceDb[ifName]
      newInterface == newInterfaceDb[ifName]
      s1 == toggleMcastGroup(s, interface.ifIndex, FALSE, env.leaveOk[ifName])
      joined == SetsockoptOk(s1, newInterface.ifIndex, TRUE, env.joinOk[ifName])
      s2 == toggleMcastGroup(s1, newInterface.ifIndex, TRUE, env.joinOk[ifName])
  IN IF InterfaceEq(interface, newInterface) THEN s
     ELSE IF newInterface.ifIndex # interface.ifIndex
     THEN IF ~joined THEN [s2 EXCEPT !.exc = TRUE]
          ELSE [s2 EXCEPT !.interfaceDb[ifName] = newInterface]
     ELSE [s EXCEPT !.interfaceDb[ifName] = newInterface]

RECURSIVE updateInterfaceInDb(_, _, _, _)
updateInterfaceInDb(s, toUpdate, newInterfaceDb, env) ==
  IF toUpdate = <<>> \/ s.exc \/ s.check THEN s
  ELSE updateInterfaceInDb(UpdateOneInterface(s, Head(toUpdate), newInterfaceDb, env),
                           Tail(toUpdate), newInterfaceDb, env)

processInterfaceUpdates(s, ifDb, env) ==
  LET newInterfaceDb == NewInterfaceDb(ifDb)
      newIfaces == DOMAIN newInterfaceDb
      existingIfaces == DOMAIN s.interfaceDb
      toAdd == newIfaces \ existingIfaces
      toDel == existingIfaces \ newIfaces
      toUpdate == newIfaces \cap existingIfaces
      s1 == deleteInterfaceFromDb(s, SeqOf(IfSeq, toDel), env)
      s2 == addInterfaceToDb(s1, SeqOf(IfSeq, toAdd), newInterfaceDb, env)
  IN updateInterfaceInDb(s2, SeqOf(IfSeq, toUpdate), newInterfaceDb, env)

-----------------------------------------------------------------------------
(* Outbound packets.                                                        *)

\* sendHelloMsg(ifName, inFastInitState = false, restarting = false)
sendHelloMsg(s, ifName, inFastInitState, restarting, env) ==
  IF ifName \notin DOMAIN s.interfaceDb THEN s
  ELSE LET rec == [IoRec("send", "HELLO", s.interfaceDb[ifName].ifIndex, 0, "-")
                     EXCEPT !.solicit = inFastInitState,
                            !.restarting = restarting,
                            !.seqNum = s.mySeqNum,
                            !.neighborInfos =
                               [n \in DOMAIN s.spark2Neighbors[ifName] |->
                                  s.spark2Neighbors[ifName][n].seqNum]]
           s1 == SendPacket(s, rec, env)
       IN [s1 EXCEPT !.mySeqNum = @ + 1]

sendHandshakeMsg(s, ifName, neighborName, neighborAreaId, isAdjEstablished, env) ==
  LET rec == [IoRec("send", "HANDSHAKE", s.interfaceDb[ifName].ifIndex, 0, "-")
                EXCEPT !.to = neighborName, !.adjEst = isAdjEstablished,
                       !.area = neighborAreaId]
  IN SendPacket(s, rec, env)

\* SCOPE_EXIT { ++mySeqNum_; } is registered before the active-neighbor test.
sendHeartbeatMsg(s, ifName, env) ==
  LET s1 == IF ifName \notin DOMAIN s.ifNameToActiveNeighbors THEN s
            ELSE SendPacket(s, [IoRec("send", "HEARTBEAT",
                                      s.interfaceDb[ifName].ifIndex, 0, "-")
                                  EXCEPT !.seqNum = s.mySeqNum], env)
  IN [s1 EXCEPT !.mySeqNum = @ + 1]

-----------------------------------------------------------------------------
(* Area deduction, packet sanity, V4 validation, RTT.                       *)

\* A row of areaIdRegexList_: a regex set is modelled by the set of names it
\* matches; hasNbr / hasIf tell whether the row has that regex set at all.
AreaRow(areaId, hasNbr, nbrRe, hasIf, ifRe) ==
  [areaId |-> areaId, hasNbr |-> hasNbr, nbrRe |-> nbrRe, hasIf |-> hasIf, ifRe |-> ifRe]

matchRegexSet(name, regexSet) == name \in regexSet

RowMatches(row, peerNodeName, localIfName) ==
  IF row.hasNbr /\ row.hasIf
  THEN matchRegexSet(peerNodeName, row.nbrRe) /\ matchRegexSet(localIfName, row.ifRe)
  ELSE IF row.hasNbr /\ matchRegexSet(peerNodeName, row.nbrRe) THEN TRUE
  ELSE row.hasIf /\ matchRegexSet(localIfName, row.ifRe)

\* candidateAreas of getNeighborArea.
CandidateAreas(peerNodeName, localIfName, regexList) ==
  LET rows == SelectSeq(regexList, LAMBDA r : RowMatches(r, peerNodeName, localIfName))
  IN [i \in DOMAIN rows |-> rows[i].areaId]

\* A getNeighborArea that settles for the last of several candidates.
getNeighborAreaMutant(peerNodeName, localIfName, regexList) ==
  LET c == CandidateAreas(peerNodeName, localIfName, regexList)
  IN IF Len(c) >= 1 THEN <<c[Len(c)]>> ELSE <<>>

\* getNeighborArea: <<>> stands for std::nullopt, <<a>> for the area a.
getNeighborArea(peerNodeName, localIfName, regexList) ==
  LET c == CandidateAreas(peerNodeName, localIfName, regexList)
  IN IF Len(c) = 1 THEN <<c[Len(c)]>> ELSE <<>>

\* sanityCheckHelloPkt: the name of the check that rejects, or "SUCCESS".
\* A sanity check that looks at the domain before the name.
sanityCheckHelloPktMutant(domainName, neighborName, remoteVersion) ==
  IF domainName # myDomainName THEN "different_domain"
  ELSE IF neighborName = myNodeName THEN "looped_packet"
  ELSE IF remoteVersion < kLowestSupportedVersion THEN "invalid_version"
  ELSE "SUCCESS"

sanityCheckHelloPkt(domainName, neighborName, remoteVersion) ==
  IF neighborName = myNodeName THEN "looped_packet"
  ELSE IF domainName # myDomainName THEN "different_domain"
  ELSE IF remoteVersion < kLowestSupportedVersion THEN "invalid_version"
  ELSE "SUCCESS"

\* An IPv4 address is a number below 2^32; -1 is a BinaryAddress that does not parse.
SubnetOf(addr, prefixLen) == addr \div (2 ^ (32 - prefixLen))

\* A validation that is content with any address that parses.
validateV4AddressSubnetMutant(s, ifName, neighV4Addr) == neighV4Addr # -1

\* validateV4AddressSubnet: TRUE for PacketValidationResult::SUCCESS.
validateV4AddressSubnet(s, ifName, neighV4Addr) ==
  LET myV4Network == s.interfaceDb[ifName].v4Network
  IN /\ neighV4Addr # -1
     /\ SubnetOf(myV4Network[1], myV4Network[2]) = SubnetOf(neighV4Addr, myV4Network[2])

\* C++ integer division truncates toward zero.
TruncDiv(a, b) == IF a >= 0 THEN a \div b ELSE -((-a) \div b)

\* The sample updateNeighborRtt arrives at, once its three early returns are passed.
RttSample(myRecvTime, mySentTime, nbrRecvTime, nbrSentTime) ==
  Max(TruncDiv((myRecvTime - mySentTime) - (nbrSentTime - nbrRecvTime), 1000) * 1000, 1000)

\* processRttChange, the callback of the neighbor's step detector.
processRttChange(s, ifName, neighborName, newRtt) ==
  LET nbr == s.spark2Neighbors[ifName][neighborName]
  IN IF nbr.state # ESTABLISHED THEN s
     ELSE LET nbr1 == [nbr EXCEPT !.rtt = newRtt]
          IN notifySparkNeighborEvent(SetNbr(s, ifName, neighborName, nbr1),
                                      NEIGHBOR_RTT_CHANGE, ifName, neighborName, nbr1)

\* An updateNeighborRtt that does not floor the sample at one millisecond.
updateNeighborRttMutant(s, myRecvTime, mySentTime, nbrRecvTime, nbrSentTime, neighborName, ifName, env) ==
  IF mySentTime = 0 \/ nbrRecvTime = 0 THEN s
  ELSE IF nbrSentTime < nbrRecvTime THEN s
  ELSE IF myRecvTime < mySentTime THEN s
  ELSE LET rtt == TruncDiv((myRecvTime - mySentTime) - (nbrSentTime - nbrRecvTime), 1000) * 1000
       IN IF rtt < 0 THEN s
          ELSE IF ifName \notin DOMAIN s.spark2Neighbors THEN s
          ELSE IF neighborName \notin DOMAIN s.spark2Neighbors[ifName] THEN s
          ELSE LET s0 == [s EXCEPT !.io = Append(@, [IoRec("addValue", "RTT", 0, 0, "-")
                                                       EXCEPT !.value = rtt])]
                   s1 == IF env.stepFires
                         THEN processRttChange(s0, ifName, neighborName, env.newRtt)
                         ELSE s0
                   nbr == s1.spark2Neighbors[ifName][neighborName]
                   nbr1 == [nbr EXCEPT !.rtt = IF @ = 0 THEN rtt ELSE @,
                                       !.rttLatest = rtt]
               IN SetNbr(s1, ifName, neighborName, nbr1)

\* updateNeighborRtt.  The step detector (StepDetector.h) is not part of the
\* engine: addValue is recorded as a call, and whether it fires the callback,
\* and with which mean, is env's.
updateNeighborRtt(s, myRecvTime, mySentTime, nbrRecvTime, nbrSentTime, neighborName, ifName, env) ==
  IF mySentTime = 0 \/ nbrRecvTime = 0 THEN s
  ELSE IF nbrSentTime < nbrRecvTime THEN s
  ELSE IF myRecvTime < mySentTime THEN s
  ELSE LET rtt == RttSample(myRecvTime, mySentTime, nbrRecvTime, nbrSentTime)
       IN IF rtt < 0 THEN s
          ELSE IF ifName \notin DOMAIN s.spark2Neighbors THEN s
          ELSE IF neighborName \notin DOMAIN s.spark2Neighbors[ifName] THEN s
          ELSE LET s0 == [s EXCEPT !.io = Append(@, [IoRec("addValue", "RTT", 0, 0, "-")
                                                       EXCEPT !.value = rtt])]
                   s1 == IF env.stepFires
                         THEN processRttChange(s0, ifName, neighborName, env.newRtt)
                         ELSE s0
                   nbr == s1.spark2Neighbors[ifName][neighborName]
                   nbr1 == [nbr EXCEPT !.rtt = IF @ = 0 THEN rtt ELSE @,
                                       !.rttLatest = rtt]
               IN SetNbr(s1, ifName, neighborName, nbr1)

-----------------------------------------------------------------------------
(* Inbound HELLO.                                                           *)

\* neighbor.state = getNextState(oldState, event); a table entry without a value
\* fails the CHECK of getNextState.
Transition(s, ifName, neighborName, event) ==
  LET oldState == s.spark2Neighbors[ifName][neighborName].state
      next == getNextState(oldState, event)
  IN IF next = NullOpt THEN [s EXCEPT !.check = TRUE]
     ELSE LET nbr == [s.spark2Neighbors[ifName][neighborName] EXCEPT !.state = next]
          IN [SetNbr(s, ifName, neighborName, nbr) EXCEPT
                !.fsm = Append(@, [ifName |-> ifName, node |-> neighborName,
                                   from |-> oldState, event |-> event, to |-> next])]

\* A processGRMsg that leaves heartbeatHoldTimer running.
processGRMsgMutant(s, neighborName, ifName) ==
  LET nbr == s.spark2Neighbors[ifName][neighborName]
      s1 == notifySparkNeighborEvent(s, NEIGHBOR_RESTARTING, ifName, neighborName, nbr)
      s2 == [s1 EXCEPT !.spark2Neighbors[ifName][neighborName].gracefulRestartHoldTimer =
                          nbr.gracefulRestartHoldTime]
  IN Transition(s2, ifName, neighborName, HELLO_RCVD_RESTART)

processGRMsg(s, neighborName, ifName) ==
  LET nbr == s.spark2Neighbors[ifName][neighborName]
      s1 == notifySparkNeighborEvent(s, NEIGHBOR_RESTARTING, ifName, neighborName, nbr)
      s2 == [s1 EXCEPT !.spark2Neighbors[ifName][neighborName].gracefulRestartHoldTimer =
                          nbr.gracefulRestartHoldTime]
      s3 == Transition(s2, ifName, neighborName, HELLO_RCVD_RESTART)
  IN [s3 EXCEPT !.spark2Neighbors[ifName][neighborName].heartbeatHoldTimer = NoTimer]

\* The dispatch on neighbor.state that ends processHelloMsg.
HelloDispatch(s, msg, ifName) ==
  LET n == msg.nodeName
      nbr == s.spark2Neighbors[ifName][n]
      seen == [s EXCEPT !.spark2Neighbors[ifName][n].seqNum = msg.seqNum]
  IN CASE nbr.state = IDLE ->
            [Transition(s, ifName, n, HELLO_RCVD_NO_INFO) EXCEPT !.res = "idle"]
       [] nbr.state = WARM ->
            IF ~msg.hasInfo THEN [seen EXCEPT !.res = "warm_no_info"]
            ELSE IF msg.infoSeqNum >= s.mySeqNum
            THEN [seen EXCEPT !.res = "warm_previous_incarnation"]
            ELSE LET s1 == [seen EXCEPT
                              !.spark2Neighbors[ifName][n].negotiateTimer = myHandshakeTime,
                              !.spark2Neighbors[ifName][n].negotiateHoldTimer =
                                 myNegotiateHoldTime]
                 IN [Transition(s1, ifName, n, HELLO_RCVD_INFO) EXCEPT !.res = "warm_info"]
       [] nbr.state = ESTABLISHED ->
            IF msg.restarting
            THEN [processGRMsg(seen, n, ifName) EXCEPT !.res = "established_restarting"]
            ELSE IF ~msg.hasInfo
            THEN LET s1 == Transition(seen, ifName, n, HELLO_RCVD_NO_INFO)
                     s2 == neighborDownWrapper(s1, ifName, n)
                 IN [EraseNbr(s2, ifName, n) EXCEPT !.res = "established_no_info"]
            ELSE [seen EXCEPT !.res = "established_info"]
       [] nbr.state = RESTART ->
            IF ~msg.hasInfo THEN [s EXCEPT !.res = "restart_no_info"]
            ELSE IF nbr.seqNum < msg.seqNum THEN [s EXCEPT !.res = "restart_seq"]
            ELSE LET s1 == notifySparkNeighborEvent(seen, NEIGHBOR_RESTARTED, ifName, n,
                                                    seen.spark2Neighbors[ifName][n])
                     s2 == [s1 EXCEPT
                              !.spark2Neighbors[ifName][n].heartbeatHoldTimer =
                                 nbr.heartbeatHoldTime,
                              !.spark2Neighbors[ifName][n].gracefulRestartHoldTimer =
                                 NoTimer]
                 IN [Transition(s2, ifName, n, HELLO_RCVD_INFO) EXCEPT !.res = "restart_info"]
       [] OTHER -> [s EXCEPT !.res = "negotiate"]

\* A reply that asks for a reply in its turn.
HelloKnownMutant(s, msg, ifName, myRecvTimeInUs, env) ==
  LET n == msg.nodeName
      s1 == [s EXCEPT !.spark2Neighbors[ifName][n].neighborTimestamp = msg.sentTsInUs,
                      !.spark2Neighbors[ifName][n].localTimestamp = myRecvTimeInUs]
      s2 == IF msg.hasInfo
            THEN updateNeighborRtt(s1, myRecvTimeInUs, msg.infoNbrSentTs, msg.infoMyRcvdTs,
                                   msg.sentTsInUs, n, ifName, env)
            ELSE s1
      s3 == IF msg.solicitResponse THEN sendHelloMsg(s2, ifName, TRUE, FALSE, env) ELSE s2
  IN HelloDispatch(s3, msg, ifName)

\* processHelloMsg from the neighbor lookup on: the neighbor is tracked (perhaps
\* just created) in s.
HelloKnown(s, msg, ifName, myRecvTimeInUs, env) ==
  LET n == msg.nodeName
      s1 == [s EXCEPT !.spark2Neighbors[ifName][n].neighborTimestamp = msg.sentTsInUs,
                      !.spark2Neighbors[ifName][n].localTimestamp = myRecvTimeInUs]
      s2 == IF msg.hasInfo
            THEN updateNeighborRtt(s1, myRecvTimeInUs, msg.infoNbrSentTs, msg.infoMyRcvdTs,
                                   msg.sentTsInUs, n, ifName, env)
            ELSE s1
      s3 == IF msg.solicitResponse THEN sendHelloMsg(s2, ifName, FALSE, FALSE, env) ELSE s2
  IN HelloDispatch(s3, msg, ifName)

processHelloMsg(s, msg, ifName, myRecvTimeInUs, env) ==
  LET n == msg.nodeName
      sanity == sanityCheckHelloPkt(msg.domainName, n, msg.version)
  IN IF ifName \notin DOMAIN s.spark2Neighbors THEN [s EXCEPT !.res = "unknown_interface"]
     ELSE IF sanity # "SUCCESS" THEN [s EXCEPT !.res = sanity]
     ELSE IF n \in DOMAIN s.spark2Neighbors[ifName]
     THEN HelloKnown(s, msg, ifName, myRecvTimeInUs, env)
     ELSE LET area == getNeighborArea(n, ifName, areaIdRegexList)
              alloc == getNewLabelForIface(s, ifName)
          IN IF area = <<>> THEN [s EXCEPT !.res = "no_area"]
             ELSE IF alloc.thrown
             THEN [alloc.s EXCEPT !.exc = TRUE, !.res = "label_exhausted"]
             ELSE HelloKnown(SetNbr(alloc.s, ifName, n,
                                    Spark2Neighbor(alloc.label, msg.seqNum, area[1])),
                             msg, ifName, myRecvTimeInUs, env)

-----------------------------------------------------------------------------
(* Inbound HANDSHAKE and HEARTBEAT.                                         *)

\* A NEGOTIATION_FAILURE that leaves negotiateHoldTimer scheduled.
NegotiationFailureKeeps(s, ifName, n) ==
  LET s1 == Transition(s, ifName, n, NEGOTIATION_FAILURE)
  IN [s1 EXCEPT !.spark2Neighbors[ifName][n].negotiateTimer = NoTimer]

\* NEGOTIATION_FAILURE: back to WARM, both negotiate timers reset.
NegotiationFailure(s, ifName, n) ==
  LET s1 == Transition(s, ifName, n, NEGOTIATION_FAILURE)
  IN [s1 EXCEPT !.spark2Neighbors[ifName][n].negotiateTimer = NoTimer,
                !.spark2Neighbors[ifName][n].negotiateHoldTimer = NoTimer]

\* A negotiation that keeps the area deduced from the hello whatever the peer says.
HandshakeNegotiateMutant(s, msg, ifName) ==
  LET n == msg.nodeName
      s1 == [s EXCEPT
               !.spark2Neighbors[ifName][n].kvStoreCmdPort = msg.kvStoreCmdPort,
               !.spark2Neighbors[ifName][n].openrCtrlThriftPort = msg.openrCtrlThriftPort,
               !.spark2Neighbors[ifName][n].transportAddressV4 = msg.transportAddressV4,
               !.spark2Neighbors[ifName][n].transportAddressV6 = msg.transportAddressV6,
               !.spark2Neighbors[ifName][n].heartbeatHoldTime =
                  Max(msg.holdTime, myHeartbeatHoldTime),
               !.spark2Neighbors[ifName][n].gracefulRestartHoldTime =
                  Max(msg.gracefulRestartTime, myHoldTime)]
      area == s1.spark2Neighbors[ifName][n].area
  IN IF enableV4 /\ ~validateV4AddressSubnet(s1, ifName, msg.transportAddressV4)
     THEN [NegotiationFailure(s1, ifName, n) EXCEPT !.res = "v4_failure"]
     ELSE IF area # kDefaultArea /\ msg.area # kDefaultArea /\ area # msg.area
     THEN [NegotiationFailure(s1, ifName, n) EXCEPT !.res = "area_failure"]
     ELSE LET s3 == Transition(s1, ifName, n, HANDSHAKE_RCVD)
          IN [neighborUpWrapper(s3, ifName, n) EXCEPT !.res = "established"]

\* processHandshakeMsg once the neighbor is known to be in NEGOTIATE.
HandshakeNegotiate(s, msg, ifName) ==
  LET n == msg.nodeName
      s1 == [s EXCEPT
               !.spark2Neighbors[ifName][n].kvStoreCmdPort = msg.kvStoreCmdPort,
               !.spark2Neighbors[ifName][n].openrCtrlThriftPort = msg.openrCtrlThriftPort,
               !.spark2Neighbors[ifName][n].transportAddressV4 = msg.transportAddressV4,
               !.spark2Neighbors[ifName][n].transportAddressV6 = msg.transportAddressV6,
               !.spark2Neighbors[ifName][n].heartbeatHoldTime =
                  Max(msg.holdTime, myHeartbeatHoldTime),
               !.spark2Neighbors[ifName][n].gracefulRestartHoldTime =
                  Max(msg.gracefulRestartTime, myHoldTime)]
      area == s1.spark2Neighbors[ifName][n].area
  IN IF enableV4 /\ ~validateV4AddressSubnet(s1, ifName, msg.transportAddressV4)
     THEN [NegotiationFailure(s1, ifName, n) EXCEPT !.res = "v4_failure"]
     ELSE IF area # kDefaultArea /\ msg.area # kDefaultArea /\ area # msg.area
     THEN [NegotiationFailure(s1, ifName, n) EXCEPT !.res = "area_failure"]
     ELSE LET s2 == IF area # kDefaultArea /\ msg.area # kDefaultArea THEN s1
                    ELSE [s1 EXCEPT !.spark2Neighbors[ifName][n].area = kDefaultArea]
              s3 == Transition(s2, ifName, n, HANDSHAKE_RCVD)
          IN [neighborUpWrapper(s3, ifName, n) EXCEPT !.res = "established"]

\* A handshake handler that does not look at whom the handshake is for.
processHandshakeMsgMutant(s, msg, ifName, env) ==
  LET n == msg.nodeName
  IN IF n \notin DOMAIN s.spark2Neighbors[ifName]
     THEN [s EXCEPT !.res = "unknown_neighbor"]
     ELSE LET nbr == s.spark2Neighbors[ifName][n]
              s1 == IF ~msg.isAdjEstablished
                    THEN sendHandshakeMsg(s, ifName, n, nbr.area, nbr.state # NEGOTIATE, env)
                    ELSE s
              s2 == IF nbr.heartbeatHoldTimer # NoTimer
                    THEN [s1 EXCEPT !.spark2Neighbors[ifName][n].heartbeatHoldTimer =
                                       nbr.heartbeatHoldTime]
                    ELSE s1
          IN IF nbr.state # NEGOTIATE THEN [s2 EXCEPT !.res = "not_negotiate"]
             ELSE HandshakeNegotiate(s2, msg, ifName)

\* A handshake handler whose reply never says that the adjacency is established.
processHandshakeMsgUnsettled(s, msg, ifName, env) ==
  LET n == msg.nodeName
  IN IF msg.hasNeighborNodeName /\ msg.neighborNodeName # myNodeName
     THEN [s EXCEPT !.res = "not_for_me"]
     ELSE IF n \notin DOMAIN s.spark2Neighbors[ifName]
     THEN [s EXCEPT !.res = "unknown_neighbor"]
     ELSE LET nbr == s.spark2Neighbors[ifName][n]
              s1 == IF ~msg.isAdjEstablished
                    THEN sendHandshakeMsg(s, ifName, n, nbr.area, FALSE, env)
                    ELSE s
              s2 == IF nbr.heartbeatHoldTimer # NoTimer
                    THEN [s1 EXCEPT !.spark2Neighbors[ifName][n].heartbeatHoldTimer =
                                       nbr.heartbeatHoldTime]
                    ELSE s1
          IN IF nbr.state # NEGOTIATE THEN [s2 EXCEPT !.res = "not_negotiate"]
             ELSE HandshakeNegotiate(s2, msg, ifName)

processHandshakeMsg(s, msg, ifName, env) ==
  LET n == msg.nodeName
  IN IF msg.hasNeighborNodeName /\ msg.neighborNodeName # myNodeName
     THEN [s EXCEPT !.res = "not_for_me"]
     ELSE IF n \notin DOMAIN s.spark2Neighbors[ifName]
     THEN [s EXCEPT !.res = "unknown_neighbor"]
     ELSE LET nbr == s.spark2Neighbors[ifName][n]
              s1 == IF ~msg.isAdjEstablished
                    THEN sendHandshakeMsg(s, ifName, n, nbr.area, nbr.state # NEGOTIATE, env)
                    ELSE s
              \* scheduleTimeout on an existing heartbeatHoldTimer re-arms it
              s2 == IF nbr.heartbeatHoldTimer # NoTimer
                    THEN [s1 EXCEPT !.spark2Neighbors[ifName][n].heartbeatHoldTimer =
                                       nbr.heartbeatHoldTime]
                    ELSE s1
          IN IF nbr.state # NEGOTIATE THEN [s2 EXCEPT !.res = "not_negotiate"]
             ELSE HandshakeNegotiate(s2, msg, ifName)

\* A heartbeat handler that takes note of the heartbeat and leaves the timer alone.
processHeartbeatMsgMutant(s, msg, ifName) ==
  LET n == msg.nodeName
  IN IF n \notin DOMAIN s.spark2Neighbors[ifName]
     THEN [s EXCEPT !.res = "unknown_neighbor"]
     ELSE IF s.spark2Neighbors[ifName][n].state # ESTABLISHED
     THEN [s EXCEPT !.res = "not_established"]
     ELSE [s EXCEPT !.res = "heartbeat"]

processHeartbeatMsg(s, msg, ifName) ==
  LET n == msg.nodeName
  IN IF n \notin DOMAIN s.spark2Neighbors[ifName]
     THEN [s EXCEPT !.res = "unknown_neighbor"]
     ELSE IF s.spark2Neighbors[ifName][n].state # ESTABLISHED
     THEN [s EXCEPT !.res = "not_established"]
     ELSE [s EXCEPT !.spark2Neighbors[ifName][n].heartbeatHoldTimer =
                       s.spark2Neighbors[ifName][n].heartbeatHoldTime,
                    !.res = "heartbeat"]

-----------------------------------------------------------------------------
(* Packet receipt: parsePacket, shouldProcessHelloPacket, processPacket.    *)

\* std::hash of (ifName, addr) modulo kNumTimeSeries; addr is a number.
TimeSeriesIndex(ifName, addr) ==
  ((CHOOSE i \in DOMAIN IfSeq : IfSeq[i] = ifName) + addr) % kNumTimeSeries

\* A rate limiter that drops as soon as the count has reached the cap.
shouldProcessHelloPacketMutant(s, ifName, addr) ==
  ~(s.timeSeriesVector[TimeSeriesIndex(ifName, addr)] >= kMaxAllowedPps)

\* shouldProcessHelloPacket: TRUE when the packet is processed.
shouldProcessHelloPacket(s, ifName, addr) ==
  ~(s.timeSeriesVector[TimeSeriesIndex(ifName, addr)] > kMaxAllowedPps)

\* A hop-limit check that lets one hop through.
HopLimitOkMutant(hopLimit) == ~(hopLimit < kSparkHopLimit - 1)

\* parsePacket: `if (hopLimit < Constants::kSparkHopLimit)` drops the packet.
HopLimitOk(hopLimit) == ~(hopLimit < kSparkHopLimit)

\* findInterfaceFromIfindex: the names whose entry has this ifIndex.
findInterfaceFromIfindex(s, ifIndex) ==
  {i \in DOMAIN s.interfaceDb : s.interfaceDb[i].ifIndex = ifIndex}

\* The dispatch of processPacket on the variant the envelope carries.
DispatchPacket(s, pkt, ifName, env) ==
  CASE pkt.kind = "hello" -> processHelloMsg(s, pkt.msg, ifName, pkt.recvTime, env)
    [] pkt.kind = "heartbeat" -> processHeartbeatMsg(s, pkt.msg, ifName)
    [] pkt.kind = "handshake" -> processHandshakeMsg(s, pkt.msg, ifName, env)
    [] OTHER -> [s EXCEPT !.res = "no_variant"]

\* parsePacket followed by processPacket's dispatch.
processPacket(s, pkt, env) ==
  LET found == findInterfaceFromIfindex(s, pkt.ifIndex)
      ifName == CHOOSE i \in found : TRUE
      idx == TimeSeriesIndex(ifName, pkt.addr)
      counted == [s EXCEPT !.timeSeriesVector[idx] = @ + 1]
  IN IF ~HopLimitOk(pkt.hopLimit) THEN [s EXCEPT !.res = "hop_limit"]
     ELSE IF found = {} THEN [s EXCEPT !.res = "unknown_ifindex"]
     ELSE IF ~shouldProcessHelloPacket(s, ifName, pkt.addr)
     THEN [s EXCEPT !.res = "rate_limited"]
     ELSE IF ~pkt.readOk THEN [counted EXCEPT !.res = "read_error"]
     ELSE IF pkt.kind = "garbage" THEN [counted EXCEPT !.res = "parse_error"]
     ELSE DispatchPacket(counted, pkt, ifName, env)

-----------------------------------------------------------------------------
(* Timer callbacks and stop().                                              *)

\* checkNeighborState: the CHECK fails when the state is not the expected one.
checkNeighborState(s, ifName, neighborName, state) ==
  IF s.spark2Neighbors[ifName][neighborName].state = state THEN s
  ELSE [s EXCEPT !.check = TRUE]

processHeartbeatTimeout(s, ifName, neighborName) ==
  LET s1 == checkNeighborState(s, ifName, neighborName, ESTABLISHED)
      s2 == Transition(s1, ifName, neighborName, HEARTBEAT_TIMER_EXPIRE)
      s3 == neighborDownWrapper(s2, ifName, neighborName)
  IN EraseNbr(s3, ifName, neighborName)

\* The one-shot negotiateHoldTimer has fired: its handle stays, unscheduled.
Expired == -1

\* A negotiate timeout that gives the neighbor up.
processNegotiateTimeoutMutant(s, ifName, neighborName) ==
  LET s1 == checkNeighborState(s, ifName, neighborName, NEGOTIATE)
      s2 == Transition(s1, ifName, neighborName, NEGOTIATE_TIMER_EXPIRE)
  IN EraseNbr(s2, ifName, neighborName)

\* A negotiate timeout that leaves the periodic negotiateTimer running.
processNegotiateTimeoutKeeps(s, ifName, neighborName) ==
  LET s1 == checkNeighborState(s, ifName, neighborName, NEGOTIATE)
      s2 == Transition(s1, ifName, neighborName, NEGOTIATE_TIMER_EXPIRE)
  IN [s2 EXCEPT !.spark2Neighbors[ifName][neighborName].negotiateHoldTimer = Expired]

processNegotiateTimeout(s, ifName, neighborName) ==
  LET s1 == checkNeighborState(s, ifName, neighborName, NEGOTIATE)
      s2 == Transition(s1, ifName, neighborName, NEGOTIATE_TIMER_EXPIRE)
  IN [s2 EXCEPT !.spark2Neighbors[ifName][neighborName].negotiateTimer = NoTimer,
                !.spark2Neighbors[ifName][neighborName].negotiateHoldTimer = Expired]

\* A graceful-restart timeout that keeps the neighbor and its label.
processGRTimeoutMutant(s, ifName, neighborName) ==
  LET s1 == checkNeighborState(s, ifName, neighborName, RESTART)
      s2 == Transition(s1, ifName, neighborName, GR_TIMER_EXPIRE)
  IN neighborDownWrapper(s2, ifName, neighborName)

processGRTimeout(s, ifName, neighborName) ==
  LET s1 == checkNeighborState(s, ifName, neighborName, RESTART)
      s2 == Transition(s1, ifName, neighborName, GR_TIMER_EXPIRE)
      s3 == neighborDownWrapper(s2, ifName, neighborName)
  IN EraseNbr(s3, ifName, neighborName)

\* A negotiateTimer whose callback sends nothing.
negotiateTimerCallbackMutant(s, ifName, neighborName, env) == s

\* The callback of negotiateTimer: one handshake, then the timer is scheduled again.
negotiateTimerCallback(s, ifName, neighborName, env) ==
  sendHandshakeMsg(s, ifName, neighborName,
                   s.spark2Neighbors[ifName][neighborName].area, FALSE, env)

\* stop(): kNumRestartingPktSent rounds of one restarting hello per interface.
RECURSIVE SendRestarting(_, _, _)
SendRestarting(s, ifNames, env) ==
  IF ifNames = <<>> THEN s
  ELSE SendRestarting(sendHelloMsg(s, Head(ifNames), FALSE, TRUE, env), Tail(ifNames), env)

RECURSIVE StopRounds(_, _, _)
StopRounds(s, i, env) ==
  IF i >= kNumRestartingPktSent THEN s
  ELSE StopRounds(SendRestarting(s, SeqOf(IfSeq, DOMAIN s.interfaceDb), env), i + 1, env)

\* A stop() that makes one round only.
stopMutant(s, env) == StopRounds(s, kNumRestartingPktSent - 1, env)

stop(s, env) == StopRounds(s, 0, env)

-----------------------------------------------------------------------------
(* Inputs: what the environment answers, the packets, the snapshots.        *)

Env(size, sendOk, joinOk, leaveOk, stepFires, newRtt) ==
  [size |-> size, sendOk |-> sendOk, joinOk |-> joinOk, leaveOk |-> leaveOk,
   stepFires |-> stepFires, newRtt |-> newRtt]

AllOk == [i \in IfNames |-> TRUE]

\* A handler that sends nothing and changes no membership.
QuietEnv == Env(kMinIpv6Mtu, TRUE, AllOk, AllOk, FALSE, 0)

\* Outcomes of one send: sent whole, refused by sendMessage, one byte too big.
SendEnvs ==
  { QuietEnv,
    Env(kMinIpv6Mtu, FALSE, AllOk, AllOk, FALSE, 0),
    Env(kMinIpv6Mtu + 1, TRUE, AllOk, AllOk, FALSE, 0) }

\* The step detector fires its callback with a new mean.
StepEnv == Env(kMinIpv6Mtu, TRUE, AllOk, AllOk, TRUE, 2000)

\* For an interface update: the kernel's answer to the joins and to the leaves,
\* the same for every interface or differing between the two.
IfUpdateEnvs ==
  { Env(0, TRUE, [i \in IfNames |-> j], [i \in IfNames |-> l], FALSE, 0) :
      j \in BOOLEAN, l \in BOOLEAN }
  \cup { Env(0, TRUE, [i \in IfNames |-> i = "eth0"], AllOk, FALSE, 0),
         Env(0, TRUE, AllOk, [i \in IfNames |-> i = "eth1"], FALSE, 0) }

HelloMsg(nodeName, domainName, version, seqNum, solicitResponse, restarting, hasInfo, infoSeqNum) ==
  [nodeName |-> nodeName, domainName |-> domainName, version |-> version,
   seqNum |-> seqNum, solicitResponse |-> solicitResponse, restarting |-> restarting,
   sentTsInUs |-> 3000,
   \* neighborInfos[myNodeName_], when the hello reflects us
   hasInfo |-> hasInfo, infoSeqNum |-> infoSeqNum,
   infoNbrSentTs |-> 1000, infoMyRcvdTs |-> 2000]

HandshakeMsg(nodeName, isAdjEstablished, holdTime, gracefulRestartTime, transportAddressV6, transportAddressV4, area, hasNeighborNodeName, neighborNodeName) ==
  [nodeName |-> nodeName, isAdjEstablished |-> isAdjEstablished, holdTime |-> holdTime,
   gracefulRestartTime |-> gracefulRestartTime,
   transportAddressV6 |-> transportAddressV6, transportAddressV4 |-> transportAddressV4,
   openrCtrlThriftPort |-> 2018, kvStoreCmdPort |-> 60002, area |-> area,
   hasNeighborNodeName |-> hasNeighborNodeName, neighborNodeName |-> neighborNodeName]

HeartbeatMsg(nodeName, seqNum) == [nodeName |-> nodeName, seqNum |-> seqNum]

\* What recvMessage returns: hop limit, ifIndex, peer address, kernel timestamp,
\* whether the read succeeded, and the envelope.
Packet(kind, msg, hopLimit, ifIndex, readOk) ==
  [kind |-> kind, msg |-> msg, hopLimit |-> hopLimit, ifIndex |-> ifIndex,
   addr |-> 1, recvTime |-> 5000, readOk |-> readOk]

\* An arrival: a packet and what the environment answers while it is handled.
Arrival(pkt, env) == [pkt |-> pkt, env |-> env]

\* The answers that matter for a hello: a reply is sent only when it solicits
\* one, a sample reaches the step detector only when it reflects us.
HelloEnvs(msg) ==
  (IF msg.solicitResponse THEN SendEnvs ELSE {QuietEnv})
  \cup (IF msg.hasInfo THEN {StepEnv} ELSE {})

HelloArrivals(msgs, hopLimits, ifIndexes) ==
  UNION { { Arrival(Packet("hello", m, h, x, TRUE), e) : h \in hopLimits,
            x \in ifIndexes, e \in HelloEnvs(m) } : m \in msgs }

HandshakeArrivals(msgs, hopLimits, ifIndexes) ==
  UNION { { Arrival(Packet("handshake", m, h, x, TRUE), e) : h \in hopLimits,
            x \in ifIndexes,
            e \in IF m.isAdjEstablished THEN {QuietEnv} ELSE SendEnvs } : m \in msgs }

HeartbeatArrivals(msgs, hopLimits, ifIndexes) ==
  { Arrival(Packet("heartbeat", m, h, x, TRUE), QuietEnv) :
      m \in msgs, h \in hopLimits, x \in ifIndexes }

\* A failed read, and an envelope that does not parse.
BrokenArrivals(ifIndexes) ==
  { Arrival(Packet("garbage", [nodeName |-> "-"], kSparkHopLimit, x, ok), QuietEnv) :
      x \in ifIndexes, ok \in BOOLEAN }

\* A snapshot entry that is up with one IPv4 and one IPv6 link-local network.
UpIf(ifIndex) == IfInfo(TRUE, TRUE, ifIndex, {<<1, 30>>}, {<<1, 64>>})

DownIf(ifIndex) == IfInfo(TRUE, FALSE, ifIndex, {<<1, 30>>}, {<<1, 64>>})

\* A snapshot gives the interfaces it has distinct ifIndexes.
DistinctIfIndexes(f) ==
  \A i, j \in IfNames :
    (i # j /\ f[i].present /\ f[j].present) => f[i].ifIndex # f[j].ifIndex

DefaultAreaConfig ==
  << AreaRow(kDefaultArea, TRUE, NodeNames \cup {myNodeName}, TRUE, IfNames) >>

-----------------------------------------------------------------------------
(* Actions.  Each takes the set its inputs are drawn from.                  *)

LeakedLabels(labels) == {l \in labels : l < kSrLocalRangeFirst}

\* The caps that keep the state space finite.
WithinBounds(s) ==
  /\ s.mySeqNum <= MaxSeqNum
  /\ Len(s.neighborUpdatesQueue) <= MaxEvents
  /\ Cardinality(LeakedLabels(s.allocatedLabels)) <= MaxLeak

\* A handler has returned s.  A failed CHECK aborts the process where it stands.
Handled(s, o) ==
  IF s.check
  THEN /\ pc' = "aborted"
       /\ op' = [o EXCEPT !.info = "CHECK"]
       /\ UNCHANGED <<enableV4, areaIdRegexList, interfaceDb, spark2Neighbors,
                      ifNameToActiveNeighbors, allocatedLabels, mySeqNum,
                      ifNameToHelloTimers, ifNameToHeartbeatTimers, timeSeriesVector,
                      mcastGroups, neighborUpdatesQueue, io>>
  ELSE /\ Commit(s)
       /\ op' = [o EXCEPT !.info = s.res, !.fsm = s.fsm]
       /\ pc' = pc

\* The same where one engine runs alone and time is not followed.
Finish(s, o) == Handled(s, o) /\ UNCHANGED <<pairVars, sinceHeartbeat>>

\* The fiber of the constructor: an exception out of processInterfaceUpdates
\* leaves its noexcept lambda, which terminates the process.
InterfaceUpdate(snapshots, envs) ==
  /\ pc = "running"
  /\ \E ifDb \in snapshots, env \in envs :
       LET s == processInterfaceUpdates(Cur, ifDb, env)
       IN /\ WithinBounds(s)
          /\ ifDbSnapshot' = ifDb
          /\ IF s.check
             THEN Finish(s, Op("ifupdate", "-", "-", 0))
             ELSE /\ Commit(s)
                  /\ op' = [Op("ifupdate", "-", "-", 0) EXCEPT
                              !.info = IF s.exc THEN "join_failed" ELSE "ok",
                              !.repeat = /\ op.name = "ifupdate"
                                         /\ op.info = "ok"
                                         /\ ifDb = ifDbSnapshot]
                  /\ pc' = IF s.exc THEN "aborted" ELSE "running"
                  /\ UNCHANGED <<pairVars, sinceHeartbeat>>

\* The socket callback: processPacket inside try / catch.
Receive(a) ==
  LET s == processPacket(Cur, a.pkt, a.env)
      found == findInterfaceFromIfindex(Cur, a.pkt.ifIndex)
      o == Op(a.pkt.kind, IF found = {} THEN "-" ELSE CHOOSE i \in found : TRUE,
              a.pkt.msg.nodeName, a.pkt.hopLimit)
  IN /\ pc = "running"
     /\ WithinBounds(s)
     /\ Finish(s, o)
     /\ UNCHANGED ifDbSnapshot

RecvHello(arrivals) == \E a \in arrivals : Receive(a)

RecvHandshake(arrivals) == \E a \in arrivals : Receive(a)

RecvHeartbeat(arrivals) == \E a \in arrivals : Receive(a)

RecvBroken(arrivals) == \E a \in arrivals : Receive(a)

Timer(s, o) ==
  /\ WithinBounds(s)
  /\ Finish(s, o)
  /\ UNCHANGED ifDbSnapshot

HelloTimer ==
  /\ pc = "running"
  /\ \E ifName \in ifNameToHelloTimers, inFastInitState \in BOOLEAN, env \in SendEnvs :
       Timer(sendHelloMsg(Cur, ifName, inFastInitState, FALSE, env),
             Op("helloTimer", ifName, "-", 0))

HeartbeatTimer ==
  /\ pc = "running"
  /\ \E ifName \in ifNameToHeartbeatTimers, env \in SendEnvs :
       Timer(sendHeartbeatMsg(Cur, ifName, env), Op("heartbeatTimer", ifName, "-", 0))

Armed(timer) == timer # NoTimer /\ timer # Expired

NegotiateTimer ==
  /\ pc = "running"
  /\ \E ifName \in DOMAIN spark2Neighbors, env \in SendEnvs :
       \E n \in DOMAIN spark2Neighbors[ifName] :
         /\ Armed(spark2Neighbors[ifName][n].negotiateTimer)
         /\ Timer(negotiateTimerCallback(Cur, ifName, n, env),
                  Op("negotiateTimer", ifName, n, 0))

NegotiateHoldTimer ==
  /\ pc = "running"
  /\ \E ifName \in DOMAIN spark2Neighbors :
       \E n \in DOMAIN spark2Neighbors[ifName] :
         /\ Armed(spark2Neighbors[ifName][n].negotiateHoldTimer)
         /\ Timer(processNegotiateTimeout(Cur, ifName, n),
                  Op("negotiateHoldTimer", ifName, n, 0))

HeartbeatHoldTimer ==
  /\ pc = "running"
  /\ \E ifName \in DOMAIN spark2Neighbors :
       \E n \in DOMAIN spark2Neighbors[ifName] :
         /\ Armed(spark2Neighbors[ifName][n].heartbeatHoldTimer)
         /\ Timer(processHeartbeatTimeout(Cur, ifName, n),
                  Op("heartbeatHoldTimer", ifName, n, 0))

GracefulRestartHoldTimer ==
  /\ pc = "running"
  /\ \E ifName \in DOMAIN spark2Neighbors :
       \E n \in DOMAIN spark2Neighbors[ifName] :
         /\ Armed(spark2Neighbors[ifName][n].gracefulRestartHoldTimer)
         /\ Timer(processGRTimeout(Cur, ifName, n),
                  Op("gracefulRestartHoldTimer", ifName, n, 0))

\* The horizon of the rate windows moves on: some recorded arrivals expire.
TimeAdvance ==
  /\ pc = "running"
  /\ \E v \in [DOMAIN timeSeriesVector -> 0..(kMaxAllowedPps + 1)] :
       /\ v # timeSeriesVector
       /\ \A i \in DOMAIN v : v[i] <= timeSeriesVector[i]
       /\ timeSeriesVector' = v
  /\ op' = Op("time", "-", "-", 0)
  /\ io' = <<>>
  /\ UNCHANGED <<enableV4, areaIdRegexList, interfaceDb, spark2Neighbors,
                 ifNameToActiveNeighbors, allocatedLabels, mySeqNum, ifNameToHelloTimers,
                 ifNameToHeartbeatTimers, mcastGroups, neighborUpdatesQueue,
                 ifDbSnapshot, pc>>
  /\ UNCHANGED <<pairVars, sinceHeartbeat>>

Stop(envs) ==
  /\ pc = "running"
  /\ \E env \in envs :
       /\ Commit(stop(Cur, env))
       /\ op' = Op("stop", "-", "-", 0)
       /\ pc' = "stopped"
       /\ UNCHANGED ifDbSnapshot
       /\ UNCHANGED <<pairVars, sinceHeartbeat>>

\* The fields of the engine as constructed, with V4 enabled or not and with
\* one of the area configurations.
InitConfigured(v4, configs) ==
  /\ enableV4 \in v4
  /\ areaIdRegexList \in configs
  /\ interfaceDb = EmptyMap
  /\ spark2Neighbors = EmptyMap
  /\ ifNameToActiveNeighbors = EmptyMap
  /\ allocatedLabels = {}
  /\ mySeqNum = 1
  /\ ifNameToHelloTimers = {}
  /\ ifNameToHeartbeatTimers = {}
  /\ timeSeriesVector = [i \in 0..(kNumTimeSeries - 1) |-> 0]
  /\ mcastGroups = {}
  /\ neighborUpdatesQueue = <<>>
  /\ io = <<>>
  /\ op = Op("init", "-", "-", 0)
  /\ ifDbSnapshot = [i \in IfNames |-> AbsentIf]
  /\ pc = "running"

\* The default area configuration.
InitFields(v4) == InitConfigured(v4, {DefaultAreaConfig})

\* No second engine, nothing in flight.
Alone ==
  /\ peer = <<>>
  /\ wire = [toMe |-> <<>>, toPeer |-> <<>>]
  /\ helloTicks = [me |-> 0, peer |-> 0]
  /\ sinceHeartbeat = 0

\* One engine alone on its links.
InitEngine(v4) == InitFields(v4) /\ Alone

-----------------------------------------------------------------------------
(* Spec: one interface, one peer, every message flow and every timer.       *)

\* eth0 comes and goes; eth1 is never in a snapshot.
Snapshots ==
  { [i \in IfNames |-> IF i = "eth0" THEN x ELSE AbsentIf] : x \in {AbsentIf, UpIf(1)} }

\* A restarting hello is looked at for its flag alone, a soliciting one is
\* answered whatever else it carries: these come with the first sequence number.
HelloMsgs ==
  { HelloMsg("nodeB", myDomainName, kLowestSupportedVersion, q, FALSE, FALSE, hi, 0) :
      q \in {1, 2}, hi \in BOOLEAN }
  \cup { HelloMsg("nodeB", myDomainName, kLowestSupportedVersion, 1, sr, ~sr, hi, 0) :
           sr \in BOOLEAN, hi \in BOOLEAN }

\* IPv4 addresses of the peer: 2 shares the /30 of the local address 1, 6 does
\* not, -1 does not parse.  IPv6 address -1 is the empty BinaryAddress.
HandshakeMsgs ==
  { HandshakeMsg("nodeB", TRUE, myHeartbeatHoldTime, myHoldTime, v6, v4, kDefaultArea,
                 TRUE, myNodeName) : v6 \in {-1, 1}, v4 \in {-1, 2, 6} }
  \cup { HandshakeMsg("nodeB", FALSE, myHeartbeatHoldTime, myHoldTime, v6, 2, kDefaultArea,
                      TRUE, myNodeName) : v6 \in {-1, 1} }

Hellos == HelloArrivals(HelloMsgs, {kSparkHopLimit}, {1})

Handshakes == HandshakeArrivals(HandshakeMsgs, {kSparkHopLimit}, {1})

Heartbeats == HeartbeatArrivals({HeartbeatMsg("nodeB", 1)}, {kSparkHopLimit}, {1})

Init == InitEngine({TRUE})

Next ==
  \/ InterfaceUpdate(Snapshots, {QuietEnv})
  \/ RecvHello(Hellos)
  \/ RecvHandshake(Handshakes)
  \/ RecvHeartbeat(Heartbeats)
  \/ HelloTimer
  \/ HeartbeatTimer
  \/ NegotiateTimer
  \/ NegotiateHoldTimer
  \/ HeartbeatHoldTimer
  \/ GracefulRestartHoldTimer
  \/ TimeAdvance
  \/ Stop({QuietEnv})

Spec == Init /\ [][Next]_vars

-----------------------------------------------------------------------------
(* Properties under Spec.                                                   *)

\* The engine's own fields and the kernel's memberships.
engineVars ==
  <<interfaceDb, spark2Neighbors, ifNameToActiveNeighbors, allocatedLabels, mySeqNum,
    ifNameToHelloTimers, ifNameToHeartbeatTimers, timeSeriesVector, mcastGroups,
    neighborUpdatesQueue>>

\* A neighbor's state, "NONE" when it is not tracked.
StateOf(nbrs, ifName, nodeName) ==
  IF ifName \in DOMAIN nbrs /\ nodeName \in DOMAIN nbrs[ifName]
  THEN nbrs[ifName][nodeName].state
  ELSE "NONE"

\* The transition table as the specification lists it (from, event, to).
TransitionTable ==
  { <<IDLE, HELLO_RCVD_INFO, WARM>>,
    <<IDLE, HELLO_RCVD_NO_INFO, WARM>>,
    <<WARM, HELLO_RCVD_INFO, NEGOTIATE>>,
    <<NEGOTIATE, HANDSHAKE_RCVD, ESTABLISHED>>,
    <<NEGOTIATE, NEGOTIATE_TIMER_EXPIRE, WARM>>,
    <<NEGOTIATE, NEGOTIATION_FAILURE, WARM>>,
    <<ESTABLISHED, HELLO_RCVD_NO_INFO, IDLE>>,
    <<ESTABLISHED, HELLO_RCVD_RESTART, RESTART>>,
    <<ESTABLISHED, HEARTBEAT_RCVD, ESTABLISHED>>,
    <<ESTABLISHED, HEARTBEAT_TIMER_EXPIRE, IDLE>>,
    <<RESTART, HELLO_RCVD_INFO, ESTABLISHED>>,
    <<RESTART, GR_TIMER_EXPIRE, IDLE>> }

\* The handler in which each event arises.
HandlerOfEvent(event) ==
  CASE event \in {HELLO_RCVD_INFO, HELLO_RCVD_NO_INFO, HELLO_RCVD_RESTART} -> "hello"
    [] event \in {HANDSHAKE_RCVD, NEGOTIATION_FAILURE} -> "handshake"
    [] event = HEARTBEAT_RCVD -> "heartbeat"
    [] event = HEARTBEAT_TIMER_EXPIRE -> "heartbeatHoldTimer"
    [] event = NEGOTIATE_TIMER_EXPIRE -> "negotiateHoldTimer"
    [] event = GR_TIMER_EXPIRE -> "gracefulRestartHoldTimer"

StepsOf(fsm, ifName, nodeName) ==
  SelectSeq(fsm, LAMBDA r : r.ifName = ifName /\ r.node = nodeName)

\* What one handler did to one neighbor is a chain of table transitions from the
\* state before to the state after, each on an event of that handler; a neighbor
\* is created in IDLE and erased once it is back in IDLE.  Without any
\* transition the state stays, or an interface update removes the neighbor.
ChangeExplained(before, after, steps, handler) ==
  IF steps = <<>>
  THEN after = before \/ (after = "NONE" /\ handler = "ifupdate")
  ELSE /\ \A k \in DOMAIN steps :
            /\ <<steps[k].from, steps[k].event, steps[k].to>> \in TransitionTable
            /\ HandlerOfEvent(steps[k].event) = handler
       /\ steps[1].from = (IF before = "NONE" THEN IDLE ELSE before)
       /\ \A k \in 1..(Len(steps) - 1) : steps[k + 1].from = steps[k].to
       /\ after = (IF steps[Len(steps)].to = IDLE THEN "NONE" ELSE steps[Len(steps)].to)

\* C1: spark2Neighbors has at most one neighbor per (ifName, neighborName) (it is
\* a map keyed by the two names), and every change of a neighbor's state made by
\* a handler is a transition of the table, taken on the event the table lists.
C1_TableTransitions ==
  [][\A i \in IfNames, n \in NodeNames :
       ChangeExplained(StateOf(spark2Neighbors, i, n), StateOf(spark2Neighbors', i, n),
                       StepsOf(op'.fsm, i, n), op'.name)]_vars

\* A hello has just taken a neighbor from RESTART back to ESTABLISHED.
C1_Witness ==
  /\ op.name = "hello"
  /\ \E k \in DOMAIN op.fsm : op.fsm[k].from = RESTART /\ op.fsm[k].to = ESTABLISHED
  /\ StateOf(spark2Neighbors, "eth0", "nodeB") = ESTABLISHED

\* C2: a name is in ifNameToActiveNeighbors[ifName] exactly when a neighbor of
\* that name is tracked on ifName and is ESTABLISHED.
C2_ActiveIffEstablished ==
  \A i \in IfNames, n \in NodeNames :
    (i \in DOMAIN ifNameToActiveNeighbors /\ n \in ifNameToActiveNeighbors[i])
      <=> StateOf(spark2Neighbors, i, n) = ESTABLISHED

\* The HELLO and HEARTBEAT packets a handler built.
SeqNumPackets(calls) ==
  {k \in DOMAIN calls : calls[k].call = "send" /\ calls[k].type \in {"HELLO", "HEARTBEAT"}}

\* C4: every handler raises mySeqNum by the number of HELLO and HEARTBEAT packets
\* it built, sent or not, and by nothing else.
C4_SeqNumCountsPackets ==
  [][mySeqNum' = mySeqNum + Cardinality(SeqNumPackets(io'))]_vars

\* C9: a packet reaches sendMessage exactly when its size is at most 1280.
C9_NoOversizedSend ==
  \A k \in DOMAIN io :
    io[k].call = "send" =>
      /\ io[k].result \in {"sent", "send_failed", "too_big"}
      /\ io[k].result \in {"sent", "send_failed"} <=> io[k].size <= 1280

\* A handshake of 1281 bytes has just been dropped, or one of 1280 bytes sent.
C9_Witness ==
  /\ \E k \in DOMAIN io :
       io[k].type = "HANDSHAKE" /\ io[k].size = 1281 /\ io[k].result = "too_big"
  /\ op.name \in {"handshake", "negotiateTimer"}

\* The events published for one neighbor, in order.
EventsOf(queue, ifName, nodeName) ==
  SelectSeq(queue, LAMBDA e : e.ifName = ifName /\ e.nodeName = nodeName)

\* How often the event was published for the neighbor.
CountEvents(queue, eventType, nodeName) ==
  Len(SelectSeq(queue, LAMBDA e : e.eventType = eventType /\ e.nodeName = nodeName))

\* C10: per (interface, neighbor), DOWN, RESTARTING and RTT_CHANGE come only after
\* an UP not yet followed by a DOWN; RESTARTED comes directly after RESTARTING;
\* RTT_CHANGE comes only while the neighbor is ESTABLISHED (after UP or RESTARTED).
C10_EventOrder ==
  \A i \in IfNames, n \in NodeNames :
    LET q == EventsOf(neighborUpdatesQueue, i, n)
    IN \A k \in DOMAIN q :
         /\ q[k].eventType \in {NEIGHBOR_DOWN, NEIGHBOR_RESTARTING, NEIGHBOR_RTT_CHANGE} =>
              \E j \in 1..(k - 1) :
                /\ q[j].eventType = NEIGHBOR_UP
                /\ \A m \in (j + 1)..(k - 1) : q[m].eventType # NEIGHBOR_DOWN
         /\ q[k].eventType = NEIGHBOR_RESTARTED =>
              k > 1 /\ q[k - 1].eventType = NEIGHBOR_RESTARTING
         /\ q[k].eventType = NEIGHBOR_RTT_CHANGE =>
              k > 1 /\ q[k - 1].eventType \in
                         {NEIGHBOR_UP, NEIGHBOR_RESTARTED, NEIGHBOR_RTT_CHANGE}

\* The record notifySparkNeighborEvent publishes for the neighbor.
EventRec(eventType, ifName, nodeName, nbr) ==
  [eventType |-> eventType, ifName |-> ifName, nodeName |-> nodeName,
   rttUs |-> nbr.rtt, label |-> nbr.label, area |-> nbr.area]

\* The handler made the one call of getNextState from -> to on the event.
OneStep(fsm, ifName, nodeName, from, event, to) ==
  fsm = << [ifName |-> ifName, node |-> nodeName, from |-> from, event |-> event,
            to |-> to] >>

\* The neighbor is gone from the interface: not tracked, not active, and the
\* label it held is free.
TornDown(nbrs, active, labels, ifName, nodeName, label) ==
  /\ nodeName \notin DOMAIN nbrs[ifName]
  /\ ifName \in DOMAIN active => nodeName \notin active[ifName]
  /\ label \notin labels

\* C12: when heartbeatHoldTimer expires the neighbor is ESTABLISHED, when
\* gracefulRestartHoldTimer expires it is RESTART; the expiry takes it to IDLE,
\* publishes one NEIGHBOR_DOWN for it and nothing else, and leaves it untracked,
\* inactive and its label free.
C12_HoldTimerTearsDown ==
  [][op'.name \in {"heartbeatHoldTimer", "gracefulRestartHoldTimer"} =>
       LET i == op'.ifName
           n == op'.node
           nbr == spark2Neighbors[i][n]
           hb == op'.name = "heartbeatHoldTimer"
       IN /\ op'.info # "CHECK"
          /\ OneStep(op'.fsm, i, n, IF hb THEN ESTABLISHED ELSE RESTART,
                     IF hb THEN HEARTBEAT_TIMER_EXPIRE ELSE GR_TIMER_EXPIRE, IDLE)
          /\ neighborUpdatesQueue' =
               Append(neighborUpdatesQueue, EventRec(NEIGHBOR_DOWN, i, n, nbr))
          /\ TornDown(spark2Neighbors', ifNameToActiveNeighbors', allocatedLabels',
                      i, n, nbr.label)]_vars

\* gracefulRestartHoldTimer has expired for a neighbor that was up and restarted.
C12_Witness ==
  /\ op.name = "gracefulRestartHoldTimer"
  /\ op.info # "CHECK"
  /\ Len(neighborUpdatesQueue) = 3
  /\ neighborUpdatesQueue[3].eventType = NEIGHBOR_DOWN
  /\ neighborUpdatesQueue[2].eventType = NEIGHBOR_RESTARTING

\* The events a step has added to the queue.
Published == SubSeq(neighborUpdatesQueue', Len(neighborUpdatesQueue) + 1, Len(neighborUpdatesQueue'))

\* The arrival is a packet on eth0 that parsePacket lets through, from a neighbor
\* tracked there in the given state.
ArrivesFor(a, state) ==
  /\ StateOf(spark2Neighbors, "eth0", a.pkt.msg.nodeName) = state
  /\ HopLimitOk(a.pkt.hopLimit)
  /\ findInterfaceFromIfindex(Cur, a.pkt.ifIndex) = {"eth0"}
  /\ shouldProcessHelloPacket(Cur, "eth0", a.pkt.addr)

\* The hellos of Spec that bear the restarting flag.
RestartingHellos == {a \in Hellos : a.pkt.msg.restarting}

\* C13: a restarting hello for an ESTABLISHED neighbor, reflecting us or not,
\* records its seqNum, publishes one NEIGHBOR_RESTARTING and no NEIGHBOR_DOWN,
\* arms gracefulRestartHoldTimer with the neighbor's gracefulRestartHoldTime,
\* clears heartbeatHoldTimer, moves the neighbor to RESTART and keeps its label.
C13_RestartingHello ==
  [][op'.name = "hello" =>
       \A a \in RestartingHellos :
         (ArrivesFor(a, ESTABLISHED) /\ Receive(a)) =>
           LET n == a.pkt.msg.nodeName
               old == spark2Neighbors["eth0"][n]
               new == spark2Neighbors'["eth0"][n]
           IN /\ n \in DOMAIN spark2Neighbors'["eth0"]
              /\ new.seqNum = a.pkt.msg.seqNum
              /\ new.state = RESTART
              /\ new.gracefulRestartHoldTimer = old.gracefulRestartHoldTime
              /\ Armed(new.gracefulRestartHoldTimer)
              /\ new.heartbeatHoldTimer = NoTimer
              /\ new.label = old.label /\ new.label \in allocatedLabels'
              /\ CountEvents(Published, NEIGHBOR_RESTARTING, n) = 1
              /\ CountEvents(Published, NEIGHBOR_DOWN, n) = 0]_vars

\* A restarting hello has been handled for a neighbor that was ESTABLISHED.
C13_Witness ==
  /\ op.name = "hello" /\ op.info = "established_restarting"
  /\ StateOf(spark2Neighbors, "eth0", "nodeB") = RESTART
  /\ neighborUpdatesQueue[Len(neighborUpdatesQueue)].eventType = NEIGHBOR_RESTARTING

\* The hellos of Spec that reflect us.
ReflectingHellos == {a \in Hellos : a.pkt.msg.hasInfo}

\* C14: for a neighbor in RESTART, a hello that reflects us and carries a seqNum
\* not below the one recorded for the neighbor is recorded, publishes one
\* NEIGHBOR_RESTARTED, re-arms heartbeatHoldTimer, cancels
\* gracefulRestartHoldTimer and returns the neighbor to ESTABLISHED.
C14_RestartReturn ==
  [][op'.name = "hello" =>
       \A a \in ReflectingHellos :
         (/\ ArrivesFor(a, RESTART)
          /\ a.pkt.msg.seqNum >= spark2Neighbors["eth0"][a.pkt.msg.nodeName].seqNum
          /\ Receive(a)) =>
           LET n == a.pkt.msg.nodeName
               old == spark2Neighbors["eth0"][n]
               new == spark2Neighbors'["eth0"][n]
           IN /\ n \in DOMAIN spark2Neighbors'["eth0"]
              /\ new.seqNum = a.pkt.msg.seqNum
              /\ new.state = ESTABLISHED
              /\ new.heartbeatHoldTimer = old.heartbeatHoldTime
              /\ Armed(new.heartbeatHoldTimer)
              /\ new.gracefulRestartHoldTimer = NoTimer
              /\ CountEvents(Published, NEIGHBOR_RESTARTED, n) = 1]_vars

\* C22: when the heartbeat timer of an interface fires, a heartbeat is handed to
\* the socket only if a neighbor on that interface is ESTABLISHED.
C22_HeartbeatOnlyIfEstablished ==
  [][(/\ op'.name = "heartbeatTimer"
      /\ \E k \in DOMAIN io' : io'[k].call = "send" /\ io'[k].type = "HEARTBEAT")
       => \E n \in DOMAIN spark2Neighbors[op'.ifName] :
            spark2Neighbors[op'.ifName][n].state = ESTABLISHED]_vars

\* The four timers of a neighbor.
TimersOf(nbr) ==
  <<nbr.negotiateTimer, nbr.negotiateHoldTimer, nbr.heartbeatHoldTimer,
    nbr.gracefulRestartHoldTimer>>

\* C29: for a neighbor in ESTABLISHED, a hello without the restarting flag that
\* does not reflect us takes the neighbor to IDLE, publishes one NEIGHBOR_DOWN,
\* and leaves it inactive, untracked and its label free; one that reflects us
\* leaves state, timers, labels and active neighbors as they are and publishes
\* neither NEIGHBOR_UP nor NEIGHBOR_DOWN.
C29_EstablishedHello ==
  [][op'.name = "hello" =>
       \A a \in Hellos :
         (/\ ArrivesFor(a, ESTABLISHED)
          /\ ~a.pkt.msg.restarting
          /\ Receive(a)) =>
           LET n == a.pkt.msg.nodeName
               old == spark2Neighbors["eth0"][n]
           IN IF ~a.pkt.msg.hasInfo
              THEN /\ OneStep(op'.fsm, "eth0", n, ESTABLISHED, HELLO_RCVD_NO_INFO, IDLE)
                   /\ CountEvents(Published, NEIGHBOR_DOWN, n) = 1
                   /\ Len(Published) = 1
                   /\ TornDown(spark2Neighbors', ifNameToActiveNeighbors', allocatedLabels',
                               "eth0", n, old.label)
              ELSE /\ n \in DOMAIN spark2Neighbors'["eth0"]
                   /\ spark2Neighbors'["eth0"][n].state = ESTABLISHED
                   /\ TimersOf(spark2Neighbors'["eth0"][n]) = TimersOf(old)
                   /\ spark2Neighbors'["eth0"][n].label = old.label
                   /\ UNCHANGED <<allocatedLabels, ifNameToActiveNeighbors>>
                   /\ CountEvents(Published, NEIGHBOR_UP, n) = 0
                   /\ CountEvents(Published, NEIGHBOR_DOWN, n) = 0]_vars

\* A hello that does not reflect us has brought the established neighbor down.
C29_Witness ==
  /\ op.name = "hello" /\ op.info = "established_no_info"
  /\ "eth0" \in DOMAIN spark2Neighbors
  /\ spark2Neighbors["eth0"] = EmptyMap
  /\ allocatedLabels = {}
  /\ ifNameToActiveNeighbors = EmptyMap
  /\ neighborUpdatesQueue[Len(neighborUpdatesQueue)].eventType = NEIGHBOR_DOWN

\* A hello that reflects us has left the established neighbor as it was.
C29_WitnessKept ==
  /\ op.name = "hello" /\ op.info = "established_info"
  /\ StateOf(spark2Neighbors, "eth0", "nodeB") = ESTABLISHED
  /\ Armed(spark2Neighbors["eth0"]["nodeB"].heartbeatHoldTimer)
  /\ ifNameToActiveNeighbors = [i \in {"eth0"} |-> {"nodeB"}]

\* C35: when a tracked interface is removed, one NEIGHBOR_DOWN is published for
\* every neighbor on it that is in ESTABLISHED or RESTART (NEIGHBOR_UP published,
\* no NEIGHBOR_DOWN since), whatever transport addresses the peer advertised;
\* every neighbor's label is released, the neighbor submap is erased and
\* ifNameToActiveNeighbors has no entry for the interface.
C35_RemovalDeclaresDown ==
  [][op'.name = "ifupdate" =>
       \A i \in (DOMAIN interfaceDb) \ (DOMAIN interfaceDb') :
         /\ \A n \in DOMAIN spark2Neighbors[i] :
              /\ spark2Neighbors[i][n].state \in {ESTABLISHED, RESTART}
                   => CountEvents(Published, NEIGHBOR_DOWN, n) = 1
              /\ spark2Neighbors[i][n].label \notin allocatedLabels'
         /\ i \notin DOMAIN spark2Neighbors'
         /\ i \notin DOMAIN ifNameToActiveNeighbors']_vars

\* C38: for each tracked neighbor negotiateTimer and negotiateHoldTimer are armed
\* exactly in NEGOTIATE, heartbeatHoldTimer exactly in ESTABLISHED and
\* gracefulRestartHoldTimer exactly in RESTART; no handler fails a CHECK (of the
\* neighbor's state at a timer expiry, or of a missing entry of the table).
C38_TimersMatchState ==
  /\ \A i \in DOMAIN spark2Neighbors : \A n \in DOMAIN spark2Neighbors[i] :
       LET nbr == spark2Neighbors[i][n]
       IN /\ Armed(nbr.negotiateTimer) <=> nbr.state = NEGOTIATE
          /\ Armed(nbr.negotiateHoldTimer) <=> nbr.state = NEGOTIATE
          /\ Armed(nbr.heartbeatHoldTimer) <=> nbr.state = ESTABLISHED
          /\ Armed(nbr.gracefulRestartHoldTimer) <=> nbr.state = RESTART
  /\ op.info # "CHECK"

\* negotiateTimer has fired for a neighbor in NEGOTIATE, which stays there with
\* both negotiate timers armed and no other.
C38_Witness ==
  /\ op.name = "negotiateTimer" /\ op.node = "nodeB" /\ op.info # "CHECK"
  /\ StateOf(spark2Neighbors, "eth0", "nodeB") = NEGOTIATE
  /\ Armed(spark2Neighbors["eth0"]["nodeB"].negotiateTimer)
  /\ Armed(spark2Neighbors["eth0"]["nodeB"].negotiateHoldTimer)
  /\ spark2Neighbors["eth0"]["nodeB"].heartbeatHoldTimer = NoTimer

\* A handshake that fails the IPv4 validation has sent the neighbor back to
\* WARM with no timer armed.
C38_WitnessFailure ==
  /\ op.name = "handshake" /\ op.node = "nodeB"
  /\ \E k \in DOMAIN op.fsm : op.fsm[k].event = NEGOTIATION_FAILURE
  /\ StateOf(spark2Neighbors, "eth0", "nodeB") = WARM
  /\ spark2Neighbors["eth0"]["nodeB"].negotiateTimer = NoTimer
  /\ spark2Neighbors["eth0"]["nodeB"].negotiateHoldTimer = NoTimer

\* negotiateHoldTimer has expired and found its neighbor in NEGOTIATE.
C38_WitnessHoldExpiry ==
  /\ op.name = "negotiateHoldTimer" /\ op.node = "nodeB" /\ op.info # "CHECK"
  /\ \E k \in DOMAIN op.fsm : op.fsm[k].from = NEGOTIATE
  /\ StateOf(spark2Neighbors, "eth0", "nodeB") = WARM
  /\ ~Armed(spark2Neighbors["eth0"]["nodeB"].negotiateHoldTimer)

\* A neighbor in RESTART: only gracefulRestartHoldTimer is armed.
C38_WitnessRestart ==
  /\ StateOf(spark2Neighbors, "eth0", "nodeB") = RESTART
  /\ Armed(spark2Neighbors["eth0"]["nodeB"].gracefulRestartHoldTimer)
  /\ spark2Neighbors["eth0"]["nodeB"].heartbeatHoldTimer = NoTimer

\* heartbeatHoldTimer and gracefulRestartHoldTimer have expired and found their
\* neighbor in ESTABLISHED and in RESTART.
C38_WitnessExpiry ==
  /\ op.name \in {"heartbeatHoldTimer", "gracefulRestartHoldTimer"}
  /\ op.info # "CHECK"
  /\ \E k \in DOMAIN op.fsm :
       op.fsm[k].from = (IF op.name = "heartbeatHoldTimer" THEN ESTABLISHED ELSE RESTART)
  /\ StateOf(spark2Neighbors, op.ifName, op.node) = "NONE"

-----------------------------------------------------------------------------
(* SpecIf: two interfaces under reconciliation, with kernel failures.       *)

\* eth0 as a snapshot may show it: absent, down, up on ifIndex 1 or 2, up on
\* ifIndex 1 with another IPv4 network.  eth1 is absent or up on ifIndex 2.
IfInfos ==
  { AbsentIf, DownIf(1), UpIf(1), UpIf(2), IfInfo(TRUE, TRUE, 1, {<<9, 30>>}, {<<1, 64>>}) }

IfSnapshots ==
  { f \in [IfNames -> IfInfos] : f["eth1"] \in {AbsentIf, UpIf(2)} /\ DistinctIfIndexes(f) }

\* Both peers say hello on either ifIndex; nodeB also reflects us.
IfHellos ==
  { Arrival(Packet("hello",
                   HelloMsg(n, myDomainName, kLowestSupportedVersion, 1, FALSE, FALSE,
                            n = "nodeB" /\ hi, 0),
                   kSparkHopLimit, x, TRUE), QuietEnv) :
      n \in NodeNames, hi \in BOOLEAN, x \in IfIndexes }

InitIf == InitEngine({TRUE})

\* Reconciliation looks at no neighbor's state: the hellos that do not reflect
\* us are enough to fill the interfaces with neighbors.
NextIf ==
  \/ InterfaceUpdate(IfSnapshots, IfUpdateEnvs)
  \/ RecvHello({a \in IfHellos : ~a.pkt.msg.hasInfo})
  \/ TimeAdvance

SpecIf == InitIf /\ [][NextIf]_vars

-----------------------------------------------------------------------------
(* Properties under SpecIf.                                                 *)

\* C3: allocatedLabels is exactly the set of labels the tracked neighbors hold,
\* and no two tracked neighbors hold the same label.
C3_LabelsExact ==
  /\ allocatedLabels =
       UNION { { spark2Neighbors[i][n].label : n \in DOMAIN spark2Neighbors[i] } :
               i \in DOMAIN spark2Neighbors }
  /\ \A i, j \in DOMAIN spark2Neighbors :
       \A n \in DOMAIN spark2Neighbors[i], m \in DOMAIN spark2Neighbors[j] :
         spark2Neighbors[i][n].label = spark2Neighbors[j][m].label => (i = j /\ n = m)

\* C5: also after an update that failed with a join error, the hello timers,
\* the heartbeat timers and the neighbor submaps are those of the tracked
\* interfaces, and the socket is a member of the group on the ifIndex recorded
\* for each tracked interface.
C5_TrackedResources ==
  /\ ifNameToHelloTimers = DOMAIN interfaceDb
  /\ ifNameToHeartbeatTimers = DOMAIN interfaceDb
  /\ DOMAIN spark2Neighbors = DOMAIN interfaceDb
  /\ \A i \in DOMAIN interfaceDb : interfaceDb[i].ifIndex \in mcastGroups

\* The leave of ifIndex reported an error.
LeaveFailed(calls, ifIndex) ==
  \E k \in DOMAIN calls :
    calls[k].call = "leave" /\ calls[k].ifIndex = ifIndex /\ calls[k].result = "failed"

C7_Idempotent ==
  [][(op'.name = "ifupdate" /\ op'.repeat) =>
       /\ UNCHANGED engineVars
       /\ io' = <<>>
       /\ pc' = pc]_vars

\* The same snapshot has just been applied again with both interfaces tracked
\* and a neighbor on one of them.
C7_Witness ==
  /\ op.name = "ifupdate"
  /\ op.repeat
  /\ DOMAIN interfaceDb = IfNames
  /\ \E i \in DOMAIN spark2Neighbors : DOMAIN spark2Neighbors[i] # {}

\* The labels of the range that nobody holds.
FreeLabels == (kSrLocalRangeFirst..kSrLocalRangeSecond) \ allocatedLabels

\* A hello of a peer not yet known on the tracked interface ifName is let in.
NewNeighborOn(a, ifName) ==
  /\ ifName \in DOMAIN spark2Neighbors
  /\ a.pkt.msg.nodeName \notin DOMAIN spark2Neighbors[ifName]
  /\ HopLimitOk(a.pkt.hopLimit)
  /\ findInterfaceFromIfindex(Cur, a.pkt.ifIndex) = {ifName}
  /\ shouldProcessHelloPacket(Cur, ifName, a.pkt.addr)

\* C19: a new neighbor is given the label kSrLocalRange.first + ifIndex when
\* nobody holds it; otherwise the highest label of the range that nobody holds;
\* and when every label of the range is held the allocation fails with a
\* runtime error and no neighbor is created.
C19_LabelAllocation ==
  [][op'.name = "hello" =>
       \A a \in IfHellos, ifName \in IfNames :
         (/\ op'.node = a.pkt.msg.nodeName /\ op'.ifName = ifName
          /\ NewNeighborOn(a, ifName)
          /\ Receive(a)) =>
           LET n == a.pkt.msg.nodeName
               first == kSrLocalRangeFirst + interfaceDb[ifName].ifIndex
           IN IF first \notin allocatedLabels
              THEN /\ n \in DOMAIN spark2Neighbors'[ifName]
                   /\ spark2Neighbors'[ifName][n].label = first
              ELSE IF FreeLabels # {}
              THEN /\ n \in DOMAIN spark2Neighbors'[ifName]
                   /\ spark2Neighbors'[ifName][n].label \in FreeLabels
                   /\ \A l \in FreeLabels : l <= spark2Neighbors'[ifName][n].label
              ELSE /\ op'.info = "label_exhausted"
                   /\ n \notin DOMAIN spark2Neighbors'[ifName]]_vars

\* The allocation for nodeC on eth1 has failed: the three labels of the range
\* are held by the three other neighbors.
C19_Witness ==
  /\ op.name = "hello" /\ op.info = "label_exhausted"
  /\ op.ifName = "eth1" /\ op.node = "nodeC"
  /\ (kSrLocalRangeFirst..kSrLocalRangeSecond) \subseteq allocatedLabels

\* A neighbor on eth1 holds a label found by the probe from the back, below
\* the label of its ifIndex.
C19_WitnessProbe ==
  /\ op.name = "hello" /\ op.ifName = "eth1"
  /\ "eth1" \in DOMAIN spark2Neighbors
  /\ op.node \in DOMAIN spark2Neighbors["eth1"]
  /\ spark2Neighbors["eth1"][op.node].label < kSrLocalRangeFirst + interfaceDb["eth1"].ifIndex

\* C20: every allocated label, and every label a neighbor holds, lies in
\* [kSrLocalRange.first, kSrLocalRange.second], also after an allocation that
\* failed by exhaustion.
C20_LabelsInRange ==
  /\ allocatedLabels \subseteq kSrLocalRangeFirst..kSrLocalRangeSecond
  /\ \A i \in DOMAIN spark2Neighbors : \A n \in DOMAIN spark2Neighbors[i] :
       spark2Neighbors[i][n].label \in kSrLocalRangeFirst..kSrLocalRangeSecond

\* The positions in the calls of the joins or leaves on ifIndex.
CallsOn(calls, call, ifIndex) ==
  { k \in DOMAIN calls : calls[k].call = call /\ calls[k].ifIndex = ifIndex }

C36_WitnessNetwork ==
  /\ op.name = "ifupdate" /\ op.info = "ok" /\ ~op.repeat
  /\ "eth0" \in DOMAIN interfaceDb
  /\ interfaceDb["eth0"].v4Network = <<9, 30>>
  /\ DOMAIN spark2Neighbors["eth0"] # {}
  /\ io = <<>>

\* Whether an interface has an entry, a neighbor submap and its two timers.
Tracked(db, nbrs, hello, heartbeat, i) ==
  /\ i \in DOMAIN db /\ i \in DOMAIN nbrs /\ i \in hello /\ i \in heartbeat

Untracked(db, nbrs, hello, heartbeat, i) ==
  /\ i \notin DOMAIN db /\ i \notin DOMAIN nbrs /\ i \notin hello /\ i \notin heartbeat

\* The position of an interface in the order the update walks the names.
IfPos(i) == CHOOSE p \in DOMAIN IfSeq : IfSeq[p] = i

\* C37: when the join fails for an interface the update adds, the update ends
\* with the error (the process goes down with it), that interface has no entry,
\* no neighbor submap and no hello or heartbeat timer, every interface the update
\* removes is untracked, and every interface added before it is tracked with the
\* snapshot's entry.
C37_FailedAdd ==
  [][op'.name = "ifupdate" =>
       LET newInterfaceDb == NewInterfaceDb(ifDbSnapshot')
           toAdd == (DOMAIN newInterfaceDb) \ (DOMAIN interfaceDb)
           toDel == (DOMAIN interfaceDb) \ (DOMAIN newInterfaceDb)
       IN \A i \in toAdd :
            (\E k \in CallsOn(io', "join", newInterfaceDb[i].ifIndex) :
               io'[k].result = "failed")
            => /\ op'.info = "join_failed" /\ pc' = "aborted"
               /\ Untracked(interfaceDb', spark2Neighbors', ifNameToHelloTimers',
                            ifNameToHeartbeatTimers', i)
               /\ \A j \in toDel :
                    Untracked(interfaceDb', spark2Neighbors', ifNameToHelloTimers',
                              ifNameToHeartbeatTimers', j)
               /\ \A j \in toAdd :
                    IfPos(j) < IfPos(i) =>
                      /\ Tracked(interfaceDb', spark2Neighbors', ifNameToHelloTimers',
                                 ifNameToHeartbeatTimers', j)
                      /\ interfaceDb'[j] = newInterfaceDb[j]
                      /\ spark2Neighbors'[j] = EmptyMap]_vars

\* eth0 was added, then the join for eth1 failed.
C37_Witness ==
  /\ op.name = "ifupdate" /\ op.info = "join_failed" /\ pc = "aborted"
  /\ Len(io) = 2
  /\ io[1].call = "join" /\ io[1].ifIndex = 1 /\ io[1].result = "ok"
  /\ io[2].call = "join" /\ io[2].ifIndex = 2 /\ io[2].result = "failed"
  /\ DOMAIN interfaceDb = {"eth0"} /\ mcastGroups = {1}

\* eth0 was removed, then the join for eth1 failed: nothing is tracked.
C37_WitnessRemoved ==
  /\ op.name = "ifupdate" /\ op.info = "join_failed" /\ pc = "aborted"
  /\ Len(io) = 2
  /\ io[1].call = "leave" /\ io[1].ifIndex = 1 /\ io[1].result = "ok"
  /\ io[2].call = "join" /\ io[2].ifIndex = 2 /\ io[2].result = "failed"
  /\ DOMAIN interfaceDb = {} /\ DOMAIN spark2Neighbors = {}
  /\ ifNameToHelloTimers = {} /\ ifNameToHeartbeatTimers = {}

-----------------------------------------------------------------------------
(* SpecStop: shutdown with two interfaces and neighbors in WARM and NEGOTIATE. *)

InitStop == InitEngine({TRUE})

NextStop ==
  \/ InterfaceUpdate(IfSnapshots, {QuietEnv})
  \/ RecvHello(IfHellos)
  \/ TimeAdvance
  \/ Stop(SendEnvs)

SpecStop == InitStop /\ [][NextStop]_vars

-----------------------------------------------------------------------------
(* Properties under SpecStop.                                               *)

\* The restarting hellos of the last handler on the interface of that ifIndex.
RestartingHellosOn(calls, ifIndex) ==
  { k \in DOMAIN calls :
      /\ calls[k].call = "send" /\ calls[k].type = "HELLO"
      /\ calls[k].ifIndex = ifIndex /\ calls[k].restarting }

-----------------------------------------------------------------------------
(* SpecRtt: one interface, one peer whose hellos reflect us with timestamps *)
(* of every kind.                                                           *)

\* <<mySentTime, nbrRecvTime, nbrSentTime, myRecvTime>>: a missing timestamp
\* (twice), the peer's clock running backwards, our clock running backwards,
\* a raw sample of 400, of 3700, of -500 and of -1500 microseconds.
RttTimes ==
  { <<0, 2000, 3000, 5000>>, <<1000, 0, 3000, 5000>>,
    <<1000, 2000, 1500, 5000>>, <<1000, 2000, 3000, 500>>,
    <<1000, 2000, 2000, 1400>>, <<1000, 2000, 2300, 5000>>,
    <<1000, 2000, 2900, 1400>>, <<1000, 2000, 4500, 2000>> }

RttHello(ts, env) ==
  LET msg == [HelloMsg("nodeB", myDomainName, kLowestSupportedVersion, 1, FALSE, FALSE,
                       TRUE, 0)
                EXCEPT !.infoNbrSentTs = ts[1], !.infoMyRcvdTs = ts[2], !.sentTsInUs = ts[3]]
  IN Arrival([Packet("hello", msg, kSparkHopLimit, 1, TRUE) EXCEPT !.recvTime = ts[4]], env)

RttHellos == { RttHello(ts, env) : ts \in RttTimes, env \in {QuietEnv, StepEnv} }

RttHandshakes ==
  HandshakeArrivals({ HandshakeMsg("nodeB", TRUE, myHeartbeatHoldTime, myHoldTime, 1, 2,
                                   kDefaultArea, TRUE, myNodeName) },
                    {kSparkHopLimit}, {1})

InitRtt == InitEngine({TRUE})

NextRtt ==
  \/ InterfaceUpdate(Snapshots, {QuietEnv})
  \/ RecvHello(RttHellos)
  \/ RecvHandshake(RttHandshakes)
  \/ TimeAdvance

SpecRtt == InitRtt /\ [][NextRtt]_vars

-----------------------------------------------------------------------------
(* Properties under SpecRtt.                                                *)

\* The values the last handler has added to the step detector.
AddedValues(calls) ==
  LET added == SelectSeq(calls, LAMBDA r : r.call = "addValue")
  IN [k \in DOMAIN added |-> added[k].value]

\* rtt and rttLatest of nodeB on eth0 (0, 0 before its first hello).
RttOf(nbrs) ==
  IF "eth0" \in DOMAIN nbrs /\ "nodeB" \in DOMAIN nbrs["eth0"]
  THEN <<nbrs["eth0"]["nodeB"].rtt, nbrs["eth0"]["nodeB"].rttLatest>>
  ELSE <<0, 0>>

\* The hello is let in on the tracked interface eth0.
LetIn(a) ==
  /\ "eth0" \in DOMAIN spark2Neighbors
  /\ HopLimitOk(a.pkt.hopLimit)
  /\ findInterfaceFromIfindex(Cur, a.pkt.ifIndex) = {"eth0"}
  /\ shouldProcessHelloPacket(Cur, "eth0", a.pkt.addr)

\* The four timestamps of the hello pass the tests made one by one.
TimestampsOk(a) ==
  /\ a.pkt.msg.infoNbrSentTs # 0 /\ a.pkt.msg.infoMyRcvdTs # 0
  /\ a.pkt.recvTime >= a.pkt.msg.infoNbrSentTs
  /\ a.pkt.msg.sentTsInUs >= a.pkt.msg.infoMyRcvdTs

RawRtt(a) ==
  (a.pkt.recvTime - a.pkt.msg.infoNbrSentTs) - (a.pkt.msg.sentTsInUs - a.pkt.msg.infoMyRcvdTs)

C23_WitnessLater ==
  /\ op.name = "hello"
  /\ AddedValues(io) = <<3000>>
  /\ RttOf(spark2Neighbors) = <<1000, 3000>>

\* A hello with a timestamp out of order has left the measured values alone.
C23_WitnessAnomaly ==
  /\ op.name = "hello"
  /\ AddedValues(io) = <<>>
  /\ RttOf(spark2Neighbors) = <<1000, 3000>>
  /\ spark2Neighbors["eth0"]["nodeB"].localTimestamp = 500

\* C24: a negative result, with the timestamps in order one by one, is
\* discarded: nothing is added to the step detector and rtt and rttLatest of
\* the neighbor do not change.
C24_NegativeDiscarded ==
  [][op'.name = "hello" =>
       \A a \in RttHellos :
         (LetIn(a) /\ TimestampsOk(a) /\ RawRtt(a) < 0 /\ Receive(a)) =>
           /\ AddedValues(io') = <<>>
           /\ RttOf(spark2Neighbors') = RttOf(spark2Neighbors)]_vars

-----------------------------------------------------------------------------
(* SpecSnap: snapshots of every kind, with V4 enabled or not.               *)

\* An interface with several networks of either family, in no order.
ManyNetsIf(ifIndex) == IfInfo(TRUE, TRUE, ifIndex, {<<9, 30>>, <<1, 30>>, <<1, 24>>}, {<<3, 64>>, <<1, 64>>})

\* eth0 is absent, down, up without IPv4 network, up without IPv6 link-local
\* network, up with one network of each family or with several; eth1 is absent
\* or up.
SnapInfos ==
  { AbsentIf, DownIf(1), UpIf(1), ManyNetsIf(1),
    IfInfo(TRUE, TRUE, 1, {}, {<<2, 64>>}), IfInfo(TRUE, TRUE, 1, {<<1, 30>>}, {}) }

SnapSnapshots ==
  { f \in [IfNames -> SnapInfos \cup {UpIf(2), ManyNetsIf(2)}] :
      /\ f["eth0"] \in SnapInfos
      /\ f["eth1"] \in {AbsentIf, UpIf(2), ManyNetsIf(2)} }

\* The kernel accepts every membership change, or refuses the joins.
SnapEnvs == { QuietEnv, Env(0, TRUE, [i \in IfNames |-> FALSE], AllOk, FALSE, 0) }

SnapHellos ==
  HelloArrivals({ HelloMsg("nodeB", myDomainName, kLowestSupportedVersion, 1, FALSE, FALSE,
                           FALSE, 0) }, {kSparkHopLimit}, IfIndexes)

InitSnap == InitEngine(BOOLEAN)

NextSnap ==
  \/ InterfaceUpdate(SnapSnapshots, SnapEnvs)
  \/ RecvHello(SnapHellos)
  \/ TimeAdvance

SpecSnap == InitSnap /\ [][NextSnap]_vars

-----------------------------------------------------------------------------
(* Properties under SpecSnap.                                               *)

\* n is the lowest network of S: by address, then by prefix length.
IsLowest(n, S) ==
  /\ n \in S
  /\ \A m \in S : n[1] < m[1] \/ (n[1] = m[1] /\ n[2] <= m[2])

\* The interfaces of a snapshot that qualify for tracking.
Acceptable(snap) ==
  { i \in IfNames :
      /\ snap[i].present /\ snap[i].isUp
      /\ snap[i].v6ll # {}
      /\ enableV4 => snap[i].v4 # {} }

\* C25: after a snapshot is applied with every join succeeding, the tracked
\* interfaces are exactly those of the snapshot that are up, have an IPv6
\* link-local network and (with V4 enabled) an IPv4 network; each records the
\* lowest IPv6 link-local network and the lowest IPv4 network, or 0.0.0.0/32
\* with V4 disabled.
C25_TrackedSet ==
  [][(op'.name = "ifupdate" /\ op'.info = "ok") =>
       /\ DOMAIN interfaceDb' = Acceptable(ifDbSnapshot')
       /\ \A i \in DOMAIN interfaceDb' :
            /\ IsLowest(interfaceDb'[i].v6LinkLocalNetwork, ifDbSnapshot'[i].v6ll)
            /\ IF enableV4
               THEN IsLowest(interfaceDb'[i].v4Network, ifDbSnapshot'[i].v4)
               ELSE interfaceDb'[i].v4Network = <<0, 32>>]_vars

\* With V4 enabled, eth0 has several networks and records the lowest of each
\* family; eth1 is not in the snapshot and is not tracked.
C25_Witness ==
  /\ op.name = "ifupdate" /\ op.info = "ok"
  /\ enableV4
  /\ ifDbSnapshot["eth0"] = ManyNetsIf(1)
  /\ ~ifDbSnapshot["eth1"].present
  /\ DOMAIN interfaceDb = {"eth0"}
  /\ interfaceDb["eth0"].v4Network = <<1, 24>>
  /\ interfaceDb["eth0"].v6LinkLocalNetwork = <<1, 64>>

\* With V4 disabled an interface without IPv4 network is tracked.
C25_WitnessNoV4 ==
  /\ op.name = "ifupdate" /\ op.info = "ok"
  /\ ~enableV4
  /\ ifDbSnapshot["eth0"].present /\ ifDbSnapshot["eth0"].v4 = {}
  /\ "eth0" \in DOMAIN interfaceDb
  /\ interfaceDb["eth0"].v4Network = <<0, 32>>

\* With V4 enabled the same interface is left out.
C25_WitnessLeftOut ==
  /\ op.name = "ifupdate" /\ op.info = "ok"
  /\ enableV4
  /\ ifDbSnapshot["eth0"].present /\ ifDbSnapshot["eth0"].isUp
  /\ ifDbSnapshot["eth0"].v4 = {}
  /\ "eth0" \notin DOMAIN interfaceDb

-----------------------------------------------------------------------------
(* SpecDrop: one interface, packets that are dropped on the way in beside   *)
(* the packets that bring a neighbor up.                                    *)

\* Hellos that fail one, two or all three of the sanity checks: under our own
\* name or nodeB's, of our domain or another, of a supported version or an older
\* one.  Each solicits a reply and reflects us, with a sequence number of its own.
InsaneHelloMsgs ==
  { HelloMsg(n, d, v, 2, TRUE, FALSE, TRUE, 0) :
      n \in {myNodeName, "nodeB"}, d \in {myDomainName, "other"},
      v \in {kLowestSupportedVersion - 1, kLowestSupportedVersion} }
  \ { HelloMsg("nodeB", myDomainName, kLowestSupportedVersion, 2, TRUE, FALSE, TRUE, 0) }

\* From nodeB: a plain hello, one reflecting us, one reflecting a sequence
\* number we have not reached; and the hellos that fail the sanity checks.
DropHelloMsgs ==
  { HelloMsg("nodeB", myDomainName, kLowestSupportedVersion, 1, FALSE, FALSE, hi, 0) :
      hi \in BOOLEAN }
  \cup { HelloMsg("nodeB", myDomainName, kLowestSupportedVersion, 1, FALSE, FALSE, TRUE,
                  MaxSeqNum + 10) }
  \cup InsaneHelloMsgs

\* A handshake that completes the negotiation, one meant for nodeC, one meant
\* for nobody in particular, one from a peer that never said hello.
DropHandshakeMsgs ==
  { HandshakeMsg("nodeB", TRUE, myHeartbeatHoldTime, myHoldTime, 1, 2, kDefaultArea,
                 TRUE, myNodeName),
    HandshakeMsg("nodeB", TRUE, myHeartbeatHoldTime, myHoldTime, 1, 2, kDefaultArea,
                 TRUE, "nodeC"),
    HandshakeMsg("nodeB", TRUE, myHeartbeatHoldTime, myHoldTime, 1, 2, kDefaultArea,
                 FALSE, "-"),
    HandshakeMsg("nodeC", TRUE, myHeartbeatHoldTime, myHoldTime, 1, 2, kDefaultArea,
                 TRUE, myNodeName) }

\* Every packet comes on-link (hop limit 255) and off-link (254), on the ifIndex
\* of eth0 and on an ifIndex no interface has.
HopLimits == {kSparkHopLimit - 1, kSparkHopLimit}

InitDrop == InitEngine({TRUE})

NextDrop ==
  \/ InterfaceUpdate(Snapshots, {QuietEnv})
  \/ RecvHello(HelloArrivals(DropHelloMsgs, HopLimits, IfIndexes))
  \/ RecvHandshake(HandshakeArrivals(DropHandshakeMsgs, HopLimits, IfIndexes))
  \/ RecvHeartbeat(HeartbeatArrivals({ HeartbeatMsg(n, 1) : n \in NodeNames }, HopLimits,
                                     IfIndexes))
  \/ RecvBroken(BrokenArrivals(IfIndexes))
  \/ TimeAdvance

SpecDrop == InitDrop /\ [][NextDrop]_vars

-----------------------------------------------------------------------------
(* Properties under SpecDrop.                                               *)

PacketKinds == {"hello", "handshake", "heartbeat", "garbage"}

\* C8: a packet whose hop limit is below 255 changes nothing and sends nothing;
\* a packet whose hop limit is 255 is not dropped by the hop-limit check.
C8_HopLimit ==
  [][op'.name \in PacketKinds =>
       IF op'.hopLimit < 255
       THEN UNCHANGED engineVars /\ io' = <<>> /\ op'.fsm = <<>>
       ELSE op'.info # "hop_limit"]_vars

\* An off-link handshake for a neighbor in NEGOTIATE has just been dropped.
C8_Witness ==
  /\ op.name = "handshake"
  /\ op.hopLimit = 254
  /\ op.info = "hop_limit"
  /\ StateOf(spark2Neighbors, "eth0", "nodeB") = NEGOTIATE

\* The insane hellos as they arrive on-link on eth0.
InsaneHellos == HelloArrivals(InsaneHelloMsgs, {kSparkHopLimit}, {1})

\* The counter the claim expects for the hello: the first of the three checks,
\* in the order name, domain, version, that it fails.
ExpectedCounter(msg) ==
  CASE msg.nodeName = myNodeName -> "looped_packet"
    [] msg.nodeName # myNodeName /\ msg.domainName # myDomainName -> "different_domain"
    [] OTHER -> "invalid_version"

\* parsePacket hands the packet to processPacket's dispatch, on eth0.
Parsed(a) ==
  /\ HopLimitOk(a.pkt.hopLimit)
  /\ findInterfaceFromIfindex(Cur, a.pkt.ifIndex) = {"eth0"}
  /\ shouldProcessHelloPacket(Cur, "eth0", a.pkt.addr)

\* C15: a hello that fails packet sanity creates no neighbor, allocates no label,
\* changes no neighbor (state, timestamps, timers), is not answered and publishes
\* nothing; the one counter incremented is that of the first failing check in the
\* order looped_packet, different_domain, invalid_version.
C15_InsaneHelloIgnored ==
  [][op'.name = "hello" =>
       \A a \in InsaneHellos :
         (Parsed(a) /\ Receive(a)) =>
           /\ UNCHANGED <<spark2Neighbors, allocatedLabels, ifNameToActiveNeighbors,
                          neighborUpdatesQueue, mySeqNum, interfaceDb>>
           /\ io' = <<>>
           /\ op'.info = ExpectedCounter(a.pkt.msg)]_vars

\* A hello of another domain under nodeB's name has been handled while nodeB
\* was ESTABLISHED.
C15_Witness ==
  /\ op.name = "hello" /\ op.info = "different_domain"
  /\ StateOf(spark2Neighbors, "eth0", "nodeB") = ESTABLISHED

\* Every packet SpecDrop delivers.
DropArrivals ==
  HelloArrivals(DropHelloMsgs, HopLimits, IfIndexes)
  \cup HandshakeArrivals(DropHandshakeMsgs, HopLimits, IfIndexes)
  \cup HeartbeatArrivals({ HeartbeatMsg(n, 1) : n \in NodeNames }, HopLimits, IfIndexes)
  \cup BrokenArrivals(IfIndexes)

\* C39: a packet with hop limit 255 on the ifIndex of a tracked interface is
\* dropped by the rate limiter, changing nothing (its window included) and
\* sending nothing, exactly when the count of the window its (ifName, peerAddr)
\* selects exceeds kMaxAllowedPps at arrival; otherwise the count of that
\* window grows by one, the other windows stay, and the packet goes on to be
\* read, parsed and dispatched.
C39_RateLimit ==
  [][op'.name \in PacketKinds =>
       \A a \in DropArrivals :
         (/\ HopLimitOk(a.pkt.hopLimit)
          /\ findInterfaceFromIfindex(Cur, a.pkt.ifIndex) # {}
          /\ Receive(a)) =>
           LET ifName == CHOOSE i \in findInterfaceFromIfindex(Cur, a.pkt.ifIndex) : TRUE
               idx == TimeSeriesIndex(ifName, a.pkt.addr)
           IN IF timeSeriesVector[idx] > kMaxAllowedPps
              THEN /\ op'.info = "rate_limited"
                   /\ UNCHANGED engineVars /\ io' = <<>> /\ op'.fsm = <<>>
              ELSE /\ op'.info \notin {"rate_limited", "hop_limit", "unknown_ifindex"}
                   /\ timeSeriesVector' = [timeSeriesVector EXCEPT ![idx] = @ + 1]
                   /\ (a.pkt.kind = "garbage" \/ ~a.pkt.readOk)
                        <=> op'.info \in {"read_error", "parse_error"}]_vars

\* A hello of a neighbor that would have been answered is dropped: the window
\* is over the cap and stays as it is.
C39_Witness ==
  /\ op.name = "hello" /\ op.node = "nodeB" /\ op.hopLimit = kSparkHopLimit
  /\ op.ifName = "eth0" /\ op.info = "rate_limited"
  /\ timeSeriesVector[0] = kMaxAllowedPps + 1
  /\ StateOf(spark2Neighbors, "eth0", "nodeB") = WARM

\* The window is at the cap, not over it: the packet is counted and handled.
C39_WitnessAtCap ==
  /\ op.name = "hello" /\ op.node = "nodeB" /\ op.info \notin {"rate_limited", "-"}
  /\ timeSeriesVector[0] = kMaxAllowedPps + 1
  /\ StateOf(spark2Neighbors, "eth0", "nodeB") = WARM

\* The horizon has moved on after a drop and a packet is handled again.
C39_WitnessAgain ==
  /\ op.name = "handshake" /\ op.info = "established"
  /\ timeSeriesVector[0] = 1
  /\ StateOf(spark2Neighbors, "eth0", "nodeB") = ESTABLISHED

-----------------------------------------------------------------------------
(* SpecNeg: negotiation on one interface, with V4 enabled or not, under     *)
(* several area configurations.                                             *)

\* Area configurations.  Under AreaConfig1 nodeB on eth0 is of area 1 (both regex
\* sets match) and nodeC of area 2 (the one set it has matches).  Under
\* AreaConfig2 the first row has both sets and fails on the interface, so nodeB is
\* of area 2 by the second row, and nodeC matches two rows.  Under AreaConfig3
\* nobody on eth0 matches: the one row asks for eth1, or has no set at all.
AreaConfig1 ==
  << AreaRow("1", TRUE, {"nodeB"}, TRUE, {"eth0"}),
     AreaRow("2", TRUE, {"nodeC"}, FALSE, {}) >>

AreaConfig2 ==
  << AreaRow("1", TRUE, {"nodeB", "nodeC"}, TRUE, {"eth1"}),
     AreaRow("2", FALSE, {}, TRUE, {"eth0"}),
     AreaRow("2", TRUE, {"nodeC"}, FALSE, {}) >>

AreaConfig3 ==
  << AreaRow("1", TRUE, {"nodeB", "nodeC"}, TRUE, {"eth1"}),
     AreaRow("2", FALSE, {}, FALSE, {}) >>

AreaConfigs == {DefaultAreaConfig, AreaConfig1, AreaConfig2, AreaConfig3}

\* A plain hello of either peer, and one of nodeB that reflects us.
NegHelloMsgs ==
  { HelloMsg(n, myDomainName, kLowestSupportedVersion, 1, FALSE, FALSE, FALSE, 0) :
      n \in NodeNames }
  \cup { HelloMsg("nodeB", myDomainName, kLowestSupportedVersion, 1, FALSE, FALSE, TRUE, 0) }

\* Handshakes of nodeB, meant for us: an IPv4 address that does not parse (-1),
\* one of the local /30 (2), one outside it (6); the area nodeB has deduced for
\* us; hold times on either side of our own.
NegHandshakeMsgs ==
  { HandshakeMsg("nodeB", TRUE, myHeartbeatHoldTime + 2, myHoldTime - 1, 1, x[1], x[2],
                 TRUE, myNodeName) :
      x \in {<<-1, "0">>, <<6, "0">>, <<2, "0">>, <<2, "1">>, <<2, "2">>, <<-1, "2">>} }
  \cup { HandshakeMsg("nodeB", TRUE, myHeartbeatHoldTime - 1, myHoldTime + 1, 1, 2,
                      kDefaultArea, TRUE, myNodeName) }

NegHandshakes == HandshakeArrivals(NegHandshakeMsgs, {kSparkHopLimit}, {1})

NegHellos == HelloArrivals(NegHelloMsgs, {kSparkHopLimit}, {1})

InitNeg == InitConfigured(BOOLEAN, AreaConfigs) /\ Alone

NextNeg ==
  \/ InterfaceUpdate(Snapshots, {QuietEnv})
  \/ RecvHello(NegHellos)
  \/ RecvHandshake(NegHandshakes)
  \/ NegotiateHoldTimer
  \/ TimeAdvance

SpecNeg == InitNeg /\ [][NextNeg]_vars

-----------------------------------------------------------------------------
(* Properties under SpecNeg.                                                *)

\* The peer's IPv4 address parses and lies in the IPv4 network of eth0.
InLocalSubnet(v4) ==
  LET net == interfaceDb["eth0"].v4Network
  IN v4 # -1 /\ v4 \div (2 ^ (32 - net[2])) = net[1] \div (2 ^ (32 - net[2]))

\* Both sides have deduced an area other than the default one, and not the same.
AreaMismatch(mine, theirs) ==
  mine # kDefaultArea /\ theirs # kDefaultArea /\ mine # theirs

\* C16: with V4 enabled, a handshake for a neighbor in NEGOTIATE whose IPv4
\* address does not parse or is outside the local subnet takes the neighbor to
\* WARM, cancels negotiateTimer and negotiateHoldTimer, publishes no NEIGHBOR_UP
\* and leaves the active neighbors as they are; with V4 disabled no IPv4 address
\* fails the negotiation: it fails on the area or not at all.
C16_V4Validation ==
  [][op'.name = "handshake" =>
       \A a \in NegHandshakes :
         (ArrivesFor(a, NEGOTIATE) /\ Receive(a)) =>
           LET n == a.pkt.msg.nodeName
               old == spark2Neighbors["eth0"][n]
               new == spark2Neighbors'["eth0"][n]
           IN /\ (enableV4 /\ ~InLocalSubnet(a.pkt.msg.transportAddressV4)) =>
                   /\ new.state = WARM
                   /\ new.negotiateTimer = NoTimer
                   /\ new.negotiateHoldTimer = NoTimer
                   /\ CountEvents(Published, NEIGHBOR_UP, n) = 0
                   /\ UNCHANGED ifNameToActiveNeighbors
              /\ ~enableV4 =>
                   /\ op'.info # "v4_failure"
                   /\ new.state = ESTABLISHED <=> ~AreaMismatch(old.area, a.pkt.msg.area)]_vars

\* With V4 enabled, a handshake with an IPv4 address outside the local subnet has
\* sent a NEGOTIATE neighbor back to WARM.
C16_Witness ==
  /\ enableV4
  /\ op.name = "handshake" /\ op.info = "v4_failure"
  /\ StateOf(spark2Neighbors, "eth0", "nodeB") = WARM
  /\ spark2Neighbors["eth0"]["nodeB"].transportAddressV4 = 6

\* With V4 disabled, a handshake with an IPv4 address that does not parse has
\* brought a NEGOTIATE neighbor up.
C16_WitnessDisabled ==
  /\ ~enableV4
  /\ op.name = "handshake" /\ op.info = "established"
  /\ spark2Neighbors["eth0"]["nodeB"].transportAddressV4 = -1

\* C17: a handshake that passes the V4 and the area validation for a neighbor in
\* NEGOTIATE makes it ESTABLISHED, cancels negotiateTimer and negotiateHoldTimer,
\* arms heartbeatHoldTimer with the larger of the peer's holdTime and our
\* heartbeat hold time, sets gracefulRestartHoldTime to the larger of the peer's
\* gracefulRestartTime and our hold time, makes the neighbor active on the
\* interface and publishes one NEIGHBOR_UP.
C17_HandshakeEstablishes ==
  [][op'.name = "handshake" =>
       \A a \in NegHandshakes :
         (/\ ArrivesFor(a, NEGOTIATE)
          /\ enableV4 => InLocalSubnet(a.pkt.msg.transportAddressV4)
          /\ ~AreaMismatch(spark2Neighbors["eth0"][a.pkt.msg.nodeName].area, a.pkt.msg.area)
          /\ Receive(a)) =>
           LET n == a.pkt.msg.nodeName
               new == spark2Neighbors'["eth0"][n]
           IN /\ new.state = ESTABLISHED
              /\ new.negotiateTimer = NoTimer
              /\ new.negotiateHoldTimer = NoTimer
              /\ new.heartbeatHoldTimer = Max(a.pkt.msg.holdTime, myHeartbeatHoldTime)
              /\ new.gracefulRestartHoldTime = Max(a.pkt.msg.gracefulRestartTime, myHoldTime)
              /\ "eth0" \in DOMAIN ifNameToActiveNeighbors'
              /\ n \in ifNameToActiveNeighbors'["eth0"]
              /\ CountEvents(Published, NEIGHBOR_UP, n) = 1]_vars

\* A handshake with a longer holdTime and a shorter gracefulRestartTime than ours
\* has brought the neighbor up.
C17_Witness ==
  /\ op.name = "handshake" /\ op.info = "established"
  /\ StateOf(spark2Neighbors, "eth0", "nodeB") = ESTABLISHED
  /\ spark2Neighbors["eth0"]["nodeB"].heartbeatHoldTimer = myHeartbeatHoldTime + 2
  /\ spark2Neighbors["eth0"]["nodeB"].gracefulRestartHoldTime = myHoldTime

\* The rows of the area table that match the peer on the interface: a row with
\* both regex sets needs both to match, a row with one set needs that one.
MatchingRows(peerNodeName, localIfName) ==
  { k \in DOMAIN areaIdRegexList :
      LET row == areaIdRegexList[k]
      IN \/ row.hasNbr /\ row.hasIf /\ peerNodeName \in row.nbrRe /\ localIfName \in row.ifRe
         \/ row.hasNbr /\ ~row.hasIf /\ peerNodeName \in row.nbrRe
         \/ ~row.hasNbr /\ row.hasIf /\ localIfName \in row.ifRe }

\* C18: a hello of an unknown neighbor creates the neighbor, in the area of the
\* matching row and with a newly allocated label, if and only if exactly one row
\* of the area table matches; with no or several matching rows the hello is
\* dropped, no neighbor is created and no label is allocated.
C18_AreaResolution ==
  [][op'.name = "hello" =>
       \A a \in NegHellos :
         (/\ "eth0" \in DOMAIN spark2Neighbors
          /\ ArrivesFor(a, "NONE")
          /\ Receive(a)) =>
           LET n == a.pkt.msg.nodeName
               rows == MatchingRows(n, "eth0")
           IN IF Cardinality(rows) = 1
              THEN /\ n \in DOMAIN spark2Neighbors'["eth0"]
                   /\ \A k \in rows : spark2Neighbors'["eth0"][n].area = areaIdRegexList[k].areaId
                   /\ spark2Neighbors'["eth0"][n].label \in allocatedLabels' \ allocatedLabels
              ELSE /\ op'.info = "no_area"
                   /\ UNCHANGED <<spark2Neighbors, allocatedLabels>>]_vars

\* A hello of nodeC has been dropped because two rows match it.
C18_Witness ==
  /\ op.name = "hello" /\ op.info = "no_area" /\ op.node = "nodeC"
  /\ areaIdRegexList = AreaConfig2
  /\ Cardinality(MatchingRows("nodeC", "eth0")) = 2
  /\ StateOf(spark2Neighbors, "eth0", "nodeC") = "NONE"

\* A hello of nodeB has been dropped because no row matches it.
C18_WitnessNone ==
  /\ op.name = "hello" /\ op.info = "no_area" /\ op.node = "nodeB"
  /\ MatchingRows("nodeB", "eth0") = {}

\* nodeB is of area 2: the row with both regex sets fails on the interface.
C18_WitnessOne ==
  /\ op.name = "hello" /\ op.node = "nodeB"
  /\ areaIdRegexList = AreaConfig2
  /\ StateOf(spark2Neighbors, "eth0", "nodeB") # "NONE"
  /\ spark2Neighbors["eth0"]["nodeB"].area = "2"

\* C32: a handshake that passes the V4 validation for a neighbor in NEGOTIATE:
\* when the area deduced here and the area in the handshake are both other than
\* the default area and differ, the neighbor goes back to WARM, negotiateTimer
\* and negotiateHoldTimer are cancelled and no NEIGHBOR_UP is published; when
\* both are other than the default area and equal, the handshake is accepted and
\* the area is kept; when either is the default area, the handshake is accepted
\* and the neighbor's area becomes the default area.
C32_AreaAgreement ==
  [][op'.name = "handshake" =>
       \A a \in NegHandshakes :
         (/\ ArrivesFor(a, NEGOTIATE)
          /\ enableV4 => InLocalSubnet(a.pkt.msg.transportAddressV4)
          /\ Receive(a)) =>
           LET n == a.pkt.msg.nodeName
               old == spark2Neighbors["eth0"][n]
               new == spark2Neighbors'["eth0"][n]
               theirs == a.pkt.msg.area
           IN IF old.area # kDefaultArea /\ theirs # kDefaultArea
              THEN IF old.area # theirs
                   THEN /\ new.state = WARM
                        /\ new.negotiateTimer = NoTimer
                        /\ new.negotiateHoldTimer = NoTimer
                        /\ new.area = old.area
                        /\ CountEvents(Published, NEIGHBOR_UP, n) = 0
                        /\ UNCHANGED ifNameToActiveNeighbors
                   ELSE /\ new.state = ESTABLISHED
                        /\ new.area = old.area
                        /\ CountEvents(Published, NEIGHBOR_UP, n) = 1
              ELSE /\ new.state = ESTABLISHED
                   /\ new.area = kDefaultArea
                   /\ CountEvents(Published, NEIGHBOR_UP, n) = 1
                   /\ Published[Len(Published)].area = kDefaultArea]_vars

\* A neighbor placed in area 1 has been brought up by a handshake that names the
\* default area: its area is the default area now.
C32_Witness ==
  /\ op.name = "handshake" /\ op.info = "established"
  /\ areaIdRegexList = AreaConfig1
  /\ StateOf(spark2Neighbors, "eth0", "nodeB") = ESTABLISHED
  /\ spark2Neighbors["eth0"]["nodeB"].area = kDefaultArea
  /\ neighborUpdatesQueue[Len(neighborUpdatesQueue)].area = kDefaultArea

\* A neighbor placed in area 1 has met a handshake that names area 2.
C32_WitnessMismatch ==
  /\ op.name = "handshake" /\ op.info = "area_failure"
  /\ areaIdRegexList = AreaConfig1
  /\ StateOf(spark2Neighbors, "eth0", "nodeB") = WARM
  /\ spark2Neighbors["eth0"]["nodeB"].area = "1"
  /\ neighborUpdatesQueue = <<>>

\* A neighbor placed in area 2 has been brought up by a handshake that names area 2.
C32_WitnessEqual ==
  /\ op.name = "handshake" /\ op.info = "established"
  /\ StateOf(spark2Neighbors, "eth0", "nodeB") = ESTABLISHED
  /\ spark2Neighbors["eth0"]["nodeB"].area = "2"

-----------------------------------------------------------------------------
(* SpecLife: the whole life of a neighbor on one interface: hellos that are  *)
(* sane or not, an area table that places the peer or not, handshakes and    *)
(* heartbeats of a peer known or not, every timer, interface removal.        *)

\* From nodeB: a plain hello, one that reflects us, one that announces a
\* restart, with the first sequence number or (the restart) a later one; a
\* hello of another domain, and one that bears our own name.
LifeHelloMsgs ==
  { HelloMsg("nodeB", myDomainName, kLowestSupportedVersion, 1, FALSE, r, hi, 0) :
      r \in BOOLEAN, hi \in BOOLEAN }
  \cup { HelloMsg("nodeB", myDomainName, kLowestSupportedVersion, 2, FALSE, TRUE, FALSE, 0),
         HelloMsg("nodeB", "other", kLowestSupportedVersion, 1, FALSE, FALSE, FALSE, 0),
         HelloMsg(myNodeName, myDomainName, kLowestSupportedVersion, 1, FALSE, FALSE, FALSE, 0) }

LifeHellos == HelloArrivals(LifeHelloMsgs, {kSparkHopLimit}, {1})

LifeHandshakes ==
  HandshakeArrivals({ HandshakeMsg("nodeB", TRUE, myHeartbeatHoldTime, myHoldTime, 1, 2,
                                   kDefaultArea, TRUE, myNodeName) },
                    {kSparkHopLimit}, {1})

InitLife == InitConfigured({TRUE}, {DefaultAreaConfig, AreaConfig3}) /\ Alone

NextLife ==
  \/ InterfaceUpdate(Snapshots, {QuietEnv})
  \/ RecvHello(LifeHellos)
  \/ RecvHandshake(LifeHandshakes)
  \/ RecvHeartbeat(Heartbeats)
  \/ HelloTimer
  \/ HeartbeatTimer
  \/ NegotiateTimer
  \/ NegotiateHoldTimer
  \/ HeartbeatHoldTimer
  \/ GracefulRestartHoldTimer
  \/ TimeAdvance

SpecLife == InitLife /\ [][NextLife]_vars

-----------------------------------------------------------------------------
(* Properties under SpecLife.                                               *)

\* The neighbors: pairs of an interface and a node name.
NeighborsOf(nbrs) == { <<i, n>> : i \in DOMAIN nbrs, n \in NodeNames \cup {myNodeName} } \cap
                     UNION { { <<i, n>> : n \in DOMAIN nbrs[i] } : i \in DOMAIN nbrs }

\* The hello comes from another node of our domain with a supported version.
SaneHello(msg) ==
  /\ msg.nodeName # myNodeName
  /\ msg.domainName = myDomainName
  /\ msg.version >= kLowestSupportedVersion

\* C26: a neighbor is created only by a hello that passes the sanity checks and
\* the area deduction on a tracked interface; it is removed only by the
\* heartbeat hold timer in ESTABLISHED, by the graceful-restart timer in RESTART,
\* by a hello in ESTABLISHED that neither reflects us nor announces a restart,
\* or with its interface.
C26_Lifecycle ==
  [][/\ \A x \in NeighborsOf(spark2Neighbors') \ NeighborsOf(spark2Neighbors) :
          /\ op'.name = "hello"
          /\ x[1] \in DOMAIN interfaceDb
          /\ \E a \in LifeHellos :
               /\ a.pkt.msg.nodeName = x[2]
               /\ a.pkt.ifIndex = interfaceDb[x[1]].ifIndex
               /\ SaneHello(a.pkt.msg)
               /\ Cardinality(MatchingRows(x[2], x[1])) = 1
               /\ Receive(a)
     /\ \A x \in NeighborsOf(spark2Neighbors) \ NeighborsOf(spark2Neighbors') :
          LET state == spark2Neighbors[x[1]][x[2]].state
          IN \/ /\ op'.name = "heartbeatHoldTimer"
                /\ op'.ifName = x[1] /\ op'.node = x[2]
                /\ state = ESTABLISHED
             \/ /\ op'.name = "gracefulRestartHoldTimer"
                /\ op'.ifName = x[1] /\ op'.node = x[2]
                /\ state = RESTART
             \/ /\ op'.name = "hello"
                /\ state = ESTABLISHED
                /\ \E a \in LifeHellos :
                     /\ a.pkt.msg.nodeName = x[2]
                     /\ ~a.pkt.msg.hasInfo /\ ~a.pkt.msg.restarting
                     /\ Receive(a)
             \/ /\ op'.name = "ifupdate"
                /\ x[1] \in DOMAIN interfaceDb
                /\ x[1] \notin DOMAIN interfaceDb']_vars

\* A neighbor that was up has gone with its interface.
C26_Witness ==
  /\ op.name = "ifupdate" /\ op.info = "ok"
  /\ interfaceDb = EmptyMap /\ spark2Neighbors = EmptyMap
  /\ allocatedLabels = {}
  /\ Len(neighborUpdatesQueue) = 2
  /\ neighborUpdatesQueue[1].eventType = NEIGHBOR_UP
  /\ neighborUpdatesQueue[2].eventType = NEIGHBOR_DOWN

\* A neighbor in ESTABLISHED has been removed by a hello that does not reflect us.
C26_WitnessHello ==
  /\ op.name = "hello" /\ op.node = "nodeB"
  /\ "eth0" \in DOMAIN spark2Neighbors
  /\ "nodeB" \notin DOMAIN spark2Neighbors["eth0"]
  /\ Len(neighborUpdatesQueue) = 2
  /\ neighborUpdatesQueue[2].eventType = NEIGHBOR_DOWN

\* A handshake of a peer that is not known has created nothing.
C26_WitnessHandshake ==
  /\ op.name = "handshake" /\ op.node = "nodeB"
  /\ "eth0" \in DOMAIN spark2Neighbors
  /\ spark2Neighbors["eth0"] = EmptyMap

\* C27: for a neighbor in RESTART, a hello that does not reflect us, or whose
\* seqNum is strictly less than the recorded one, is ignored: the neighbor stays
\* in RESTART with its recorded seqNum, gracefulRestartHoldTimer keeps running,
\* heartbeatHoldTimer stays cleared and no event is published.
C27_RestartIgnored ==
  [][op'.name = "hello" =>
       \A a \in LifeHellos :
         (/\ ArrivesFor(a, RESTART)
          /\ SaneHello(a.pkt.msg)
          /\ \/ ~a.pkt.msg.hasInfo
             \/ a.pkt.msg.seqNum < spark2Neighbors["eth0"][a.pkt.msg.nodeName].seqNum
          /\ Receive(a)) =>
           LET n == a.pkt.msg.nodeName
               old == spark2Neighbors["eth0"][n]
               new == spark2Neighbors'["eth0"][n]
           IN /\ n \in DOMAIN spark2Neighbors'["eth0"]
              /\ new.state = RESTART
              /\ new.seqNum = old.seqNum
              /\ Armed(new.gracefulRestartHoldTimer)
              /\ new.gracefulRestartHoldTimer = old.gracefulRestartHoldTimer
              /\ new.heartbeatHoldTimer = NoTimer
              /\ Published = <<>>]_vars

-----------------------------------------------------------------------------
(* SpecWarm: hellos for a neighbor in WARM, reflecting a sequence number of  *)
(* ours that we have passed, reached, or not reached yet.                    *)

WarmHelloMsgs ==
  { HelloMsg("nodeB", myDomainName, kLowestSupportedVersion, q, sr, FALSE, FALSE, 0) :
      q \in {1, 2}, sr \in BOOLEAN }
  \cup { HelloMsg("nodeB", myDomainName, kLowestSupportedVersion, q, sr, FALSE, TRUE, x) :
           q \in {1, 2}, sr \in BOOLEAN, x \in 0..MaxSeqNum }

WarmHellos == HelloArrivals(WarmHelloMsgs, {kSparkHopLimit}, {1})

InitWarm == InitEngine({TRUE})

NextWarm ==
  \/ InterfaceUpdate(Snapshots, {QuietEnv})
  \/ RecvHello(WarmHellos)
  \/ HelloTimer
  \/ NegotiateHoldTimer
  \/ TimeAdvance

SpecWarm == InitWarm /\ [][NextWarm]_vars

-----------------------------------------------------------------------------
(* Properties under SpecWarm.                                               *)

\* C28: for a neighbor in WARM a hello records the peer's seqNum; if it does
\* not reflect us, or reflects a seqNum of ours that is not below mySeqNum as it
\* stands when the hello is examined (after the solicited reply, if any), the
\* neighbor stays WARM and no timer is armed; otherwise negotiateTimer
\* (myHandshakeTime) and negotiateHoldTimer (myNegotiateHoldTime) are armed and
\* the neighbor is in NEGOTIATE.
C28_WarmHello ==
  [][op'.name = "hello" =>
       \A a \in WarmHellos :
         (ArrivesFor(a, WARM) /\ Receive(a)) =>
           LET msg == a.pkt.msg
               old == spark2Neighbors["eth0"][msg.nodeName]
               new == spark2Neighbors'["eth0"][msg.nodeName]
           IN /\ new.seqNum = msg.seqNum
              /\ IF ~msg.hasInfo \/ msg.infoSeqNum >= mySeqNum'
                 THEN /\ new.state = WARM
                      /\ ~Armed(new.negotiateTimer) /\ ~Armed(new.negotiateHoldTimer)
                      /\ new.negotiateTimer = old.negotiateTimer
                      /\ new.negotiateHoldTimer = old.negotiateHoldTimer
                      /\ new.heartbeatHoldTimer = NoTimer
                      /\ new.gracefulRestartHoldTimer = NoTimer
                 ELSE /\ new.state = NEGOTIATE
                      /\ new.negotiateTimer = myHandshakeTime
                      /\ new.negotiateHoldTimer = myNegotiateHoldTime]_vars

\* A hello that reflects our present seqNum has left the neighbor in WARM with
\* the peer's seqNum recorded.
C28_Witness ==
  /\ op.name = "hello" /\ op.info = "warm_previous_incarnation"
  /\ StateOf(spark2Neighbors, "eth0", "nodeB") = WARM
  /\ spark2Neighbors["eth0"]["nodeB"].seqNum = 2
  /\ mySeqNum = 2

\* A hello that reflects a seqNum we have passed has armed both timers.
C28_WitnessNegotiate ==
  /\ op.name = "hello" /\ op.info = "warm_info"
  /\ StateOf(spark2Neighbors, "eth0", "nodeB") = NEGOTIATE
  /\ spark2Neighbors["eth0"]["nodeB"].negotiateTimer = myHandshakeTime
  /\ spark2Neighbors["eth0"]["nodeB"].negotiateHoldTimer = myNegotiateHoldTime
  /\ mySeqNum = 2

\* A hello that does not reflect us has left the neighbor in WARM.
C28_WitnessNoInfo ==
  /\ op.name = "hello" /\ op.info = "warm_no_info"
  /\ StateOf(spark2Neighbors, "eth0", "nodeB") = WARM

-----------------------------------------------------------------------------
(* SpecHand: handshakes of every kind on one interface: for a neighbor in    *)
(* WARM, NEGOTIATE, ESTABLISHED or RESTART, asking for a reply or not, for   *)
(* another node, from a node that is not tracked.                            *)

HandHelloMsgs ==
  { HelloMsg("nodeB", myDomainName, kLowestSupportedVersion, 1, FALSE, r, hi, 0) :
      r \in BOOLEAN, hi \in BOOLEAN }

HandHellos == HelloArrivals(HandHelloMsgs, {kSparkHopLimit}, {1})

\* The handshake that completes a negotiation; one with other addresses, ports
\* and hold times that asks for a reply and names no target; one for nodeC; one
\* from nodeC, which sends no hello.
HandHandshakeMsgs ==
  { HandshakeMsg("nodeB", TRUE, myHeartbeatHoldTime, myHoldTime, 1, 2, kDefaultArea,
                 TRUE, myNodeName),
    [HandshakeMsg("nodeB", FALSE, myHeartbeatHoldTime + 2, myHoldTime + 2, 3, 2,
                  kDefaultArea, FALSE, "-")
       EXCEPT !.openrCtrlThriftPort = 2019, !.kvStoreCmdPort = 60003],
    [HandshakeMsg("nodeB", FALSE, myHeartbeatHoldTime + 2, myHoldTime + 2, 3, 2,
                  kDefaultArea, TRUE, "nodeC")
       EXCEPT !.openrCtrlThriftPort = 2019, !.kvStoreCmdPort = 60003],
    HandshakeMsg("nodeC", FALSE, myHeartbeatHoldTime, myHoldTime, 1, 2, kDefaultArea,
                 TRUE, myNodeName) }

HandHandshakes == HandshakeArrivals(HandHandshakeMsgs, {kSparkHopLimit}, {1})

InitHand == InitEngine({TRUE})

NextHand ==
  \/ InterfaceUpdate(Snapshots, {QuietEnv})
  \/ RecvHello(HandHellos)
  \/ RecvHandshake(HandHandshakes)
  \/ TimeAdvance

SpecHand == InitHand /\ [][NextHand]_vars

-----------------------------------------------------------------------------
(* Properties under SpecHand.                                               *)

\* The handshake names a target that is not this node.
ForAnother(msg) == msg.hasNeighborNodeName /\ msg.neighborNodeName # myNodeName

\* The HANDSHAKE packets among the calls.
HandshakeSends(calls) == SelectSeq(calls, LAMBDA c : c.call = "send" /\ c.type = "HANDSHAKE")

\* C30: a HANDSHAKE for a tracked neighbor that is not in NEGOTIATE leaves its
\* state, recorded addresses and ports, hold times, area and label, the active
\* set and the labels as they are and publishes no event; it is answered by one
\* handshake (sent, refused or too big to leave) when the peer's
\* isAdjEstablished is false, and an existing heartbeatHoldTimer is armed again.  A HANDSHAKE for another node name, or from
\* a neighbor not tracked on the interface, changes nothing and sends nothing.
C30_HandshakeOutsideNegotiate ==
  [][op'.name = "handshake" =>
       \A a \in HandHandshakes :
         (LetIn(a) /\ Receive(a)) =>
           LET msg == a.pkt.msg
               n == msg.nodeName
           IN IF ForAnother(msg) \/ n \notin DOMAIN spark2Neighbors["eth0"]
              THEN /\ UNCHANGED <<interfaceDb, spark2Neighbors, ifNameToActiveNeighbors,
                                  allocatedLabels, mySeqNum, ifNameToHelloTimers,
                                  ifNameToHeartbeatTimers, mcastGroups,
                                  neighborUpdatesQueue>>
                   /\ io' = <<>>
              ELSE spark2Neighbors["eth0"][n].state # NEGOTIATE =>
                   LET old == spark2Neighbors["eth0"][n]
                   IN /\ spark2Neighbors' =
                           [spark2Neighbors EXCEPT !["eth0"][n].heartbeatHoldTimer =
                              IF old.heartbeatHoldTimer # NoTimer
                              THEN old.heartbeatHoldTime ELSE NoTimer]
                      /\ UNCHANGED <<interfaceDb, ifNameToActiveNeighbors, allocatedLabels,
                                     mySeqNum, neighborUpdatesQueue>>
                      /\ Len(HandshakeSends(io')) = IF msg.isAdjEstablished THEN 0 ELSE 1
                      /\ \A i \in 1..Len(io') :
                           /\ io'[i].call = "send" /\ io'[i].type = "HANDSHAKE"
                           /\ io'[i].to = n /\ io'[i].adjEst
                           /\ io'[i].area = old.area]_vars

\* An ESTABLISHED neighbor whose recorded hold times and addresses differ from
\* the handshake's has been asked again: it is as it was, and one reply left.
C30_Witness ==
  /\ op.name = "handshake" /\ op.node = "nodeB" /\ op.info = "not_negotiate"
  /\ StateOf(spark2Neighbors, "eth0", "nodeB") = ESTABLISHED
  /\ spark2Neighbors["eth0"]["nodeB"].heartbeatHoldTime = myHeartbeatHoldTime
  /\ spark2Neighbors["eth0"]["nodeB"].transportAddressV6 = 1
  /\ spark2Neighbors["eth0"]["nodeB"].heartbeatHoldTimer = myHeartbeatHoldTime
  /\ Len(io) = 1 /\ io[1].type = "HANDSHAKE" /\ io[1].adjEst /\ io[1].result = "sent"
  /\ Len(neighborUpdatesQueue) = 1

\* A neighbor in RESTART has been asked: it stays there, no hold timer is armed.
C30_WitnessRestart ==
  /\ op.name = "handshake" /\ op.node = "nodeB" /\ op.info = "not_negotiate"
  /\ StateOf(spark2Neighbors, "eth0", "nodeB") = RESTART
  /\ spark2Neighbors["eth0"]["nodeB"].heartbeatHoldTimer = NoTimer
  /\ Len(io) = 1

\* A handshake for nodeC from the tracked nodeB has been dropped.
C30_WitnessForAnother ==
  /\ op.name = "handshake" /\ op.node = "nodeB" /\ op.info = "not_for_me"
  /\ StateOf(spark2Neighbors, "eth0", "nodeB") = ESTABLISHED
  /\ io = <<>>

\* A handshake from nodeC, which is not tracked, has been dropped.
C30_WitnessUntracked ==
  /\ op.name = "handshake" /\ op.node = "nodeC" /\ op.info = "unknown_neighbor"
  /\ StateOf(spark2Neighbors, "eth0", "nodeB") = WARM
  /\ io = <<>>

-----------------------------------------------------------------------------
(* SpecHold: negotiation on one interface with its two timers: hellos that   *)
(* reflect us or not, handshakes that ask for a reply or not, negotiateTimer *)
(* and negotiateHoldTimer.  An armed negotiateHoldTimer fires in the end.    *)

NextHold ==
  \/ InterfaceUpdate(Snapshots, {QuietEnv})
  \/ RecvHello(HandHellos)
  \/ RecvHandshake(HandHandshakes)
  \/ NegotiateTimer
  \/ NegotiateHoldTimer
  \/ TimeAdvance

\* NegotiateHoldTimer can be taken exactly when this holds.
HoldTimerEnabled ==
  /\ pc = "running"
  /\ \E ifName \in DOMAIN spark2Neighbors :
       \E n \in DOMAIN spark2Neighbors[ifName] :
         Armed(spark2Neighbors[ifName][n].negotiateHoldTimer)

\* WF_vars(NegotiateHoldTimer), with ENABLED <<NegotiateHoldTimer>>_vars written
\* as the guard it amounts to: the event base runs a timeout that is due.
HoldFairness == []<>(~HoldTimerEnabled) \/ []<><<NegotiateHoldTimer>>_vars

SpecHold == InitHand /\ [][NextHold]_vars /\ HoldFairness

-----------------------------------------------------------------------------
(* Properties under SpecHold.                                               *)

\* The handshakes the handler has sent to the neighbor.
HandshakesTo(calls, n) == SelectSeq(HandshakeSends(calls), LAMBDA c : c.to = n)

\* C34: negotiateHoldTimer expires for a neighbor in NEGOTIATE, which moves to
\* WARM with negotiateTimer cancelled, nothing sent and no event; negotiateTimer
\* runs, and sends its handshake, for a neighbor in NEGOTIATE only; a handshake
\* sent for a neighbor outside NEGOTIATE is the one reply to a handshake of the
\* peer whose isAdjEstablished is false; and no neighbor stays in NEGOTIATE for ever.
C34_NegotiateHoldTimeout ==
  /\ [][op'.name = "negotiateHoldTimer" =>
          LET old == spark2Neighbors[op'.ifName][op'.node]
          IN /\ op'.info # "CHECK"
             /\ old.state = NEGOTIATE
             /\ spark2Neighbors' =
                  [spark2Neighbors EXCEPT ![op'.ifName][op'.node] =
                     [old EXCEPT !.state = WARM, !.negotiateTimer = NoTimer,
                                 !.negotiateHoldTimer = Expired]]
             /\ io' = <<>>
             /\ UNCHANGED <<neighborUpdatesQueue, ifNameToActiveNeighbors,
                            allocatedLabels>>]_vars
  /\ [][op'.name = "negotiateTimer" =>
          StateOf(spark2Neighbors, op'.ifName, op'.node) = NEGOTIATE]_vars
  /\ [](\A x \in NeighborsOf(spark2Neighbors) :
          Armed(spark2Neighbors[x[1]][x[2]].negotiateTimer)
            => spark2Neighbors[x[1]][x[2]].state = NEGOTIATE)
  /\ [][\A x \in NeighborsOf(spark2Neighbors) :
          (/\ spark2Neighbors[x[1]][x[2]].state # NEGOTIATE
           /\ HandshakesTo(io', x[2]) # <<>>) =>
            /\ op'.name = "handshake" /\ op'.node = x[2]
            /\ Len(HandshakesTo(io', x[2])) = 1
            /\ \E a \in HandHandshakes :
                 ~a.pkt.msg.isAdjEstablished /\ Receive(a)]_vars
  /\ []<>(StateOf(spark2Neighbors, "eth0", "nodeB") # NEGOTIATE)

\* C34 (as stated): once negotiateHoldTimer has expired, no handshake is sent for
\* the neighbor until it is in NEGOTIATE again.
C34_NoHandshakeUntilNegotiate ==
  [][\A x \in NeighborsOf(spark2Neighbors) :
       spark2Neighbors[x[1]][x[2]].negotiateHoldTimer = Expired
         => HandshakesTo(io', x[2]) = <<>>]_vars

\* negotiateHoldTimer has expired: the neighbor is in WARM, negotiateTimer is off.
C34_Witness ==
  /\ op.name = "negotiateHoldTimer" /\ op.node = "nodeB"
  /\ StateOf(spark2Neighbors, "eth0", "nodeB") = WARM
  /\ spark2Neighbors["eth0"]["nodeB"].negotiateTimer = NoTimer
  /\ spark2Neighbors["eth0"]["nodeB"].negotiateHoldTimer = Expired

\* After the expiry a handshake of the peer has been answered from WARM.
C34_WitnessReply ==
  /\ op.name = "handshake" /\ op.node = "nodeB" /\ op.info = "not_negotiate"
  /\ StateOf(spark2Neighbors, "eth0", "nodeB") = WARM
  /\ spark2Neighbors["eth0"]["nodeB"].negotiateHoldTimer = Expired
  /\ Len(HandshakesTo(io, "nodeB")) = 1

\* negotiateTimer has sent its handshake for the neighbor in NEGOTIATE.
C34_WitnessPeriodic ==
  /\ op.name = "negotiateTimer" /\ op.node = "nodeB"
  /\ StateOf(spark2Neighbors, "eth0", "nodeB") = NEGOTIATE
  /\ Len(HandshakesTo(io, "nodeB")) = 1

-----------------------------------------------------------------------------
(* SpecBeat: one interface, one peer, and the time of heartbeatHoldTimer:    *)
(* the field holds the time left, a unit of time takes one off, the timer    *)
(* fires when the last unit has passed.  Heartbeats come from nodeB and      *)
(* from nodeC, which is not tracked.                                         *)

MaxSince == myHeartbeatHoldTime  \* sinceHeartbeat is not counted beyond the hold time

BeatHelloMsgs ==
  { HelloMsg("nodeB", myDomainName, kLowestSupportedVersion, 1, FALSE, r, hi, 0) :
      r \in BOOLEAN, hi \in BOOLEAN }

BeatHellos == HelloArrivals(BeatHelloMsgs, {kSparkHopLimit}, {1})

BeatHeartbeats ==
  HeartbeatArrivals({HeartbeatMsg("nodeB", 1), HeartbeatMsg("nodeC", 1)},
                    {kSparkHopLimit}, {1})

\* The socket callback for a heartbeat; one of nodeB that reaches
\* processHeartbeatMsg starts the count of time anew.
BeatReceive(a) ==
  LET s == processPacket(Cur, a.pkt, a.env)
      found == findInterfaceFromIfindex(Cur, a.pkt.ifIndex)
      o == Op(a.pkt.kind, IF found = {} THEN "-" ELSE CHOOSE i \in found : TRUE,
              a.pkt.msg.nodeName, a.pkt.hopLimit)
  IN /\ pc = "running"
     /\ WithinBounds(s)
     /\ Handled(s, o)
     /\ UNCHANGED <<ifDbSnapshot, pairVars>>
     /\ sinceHeartbeat' =
          IF a.pkt.msg.nodeName = "nodeB"
             /\ s.res \in {"unknown_neighbor", "not_established", "heartbeat"}
          THEN 0 ELSE sinceHeartbeat

BeatHeartbeat == \E a \in BeatHeartbeats : BeatReceive(a)

\* One unit of time passes.  A running heartbeatHoldTimer of nodeB has one unit
\* less left, or fires: folly::AsyncTimeout runs its callback when the time given
\* to the last scheduleTimeout has passed.
BeatTick ==
  /\ pc = "running"
  /\ sinceHeartbeat' = IF sinceHeartbeat < MaxSince THEN sinceHeartbeat + 1 ELSE MaxSince
  /\ UNCHANGED <<ifDbSnapshot, pairVars>>
  /\ IF StateOf(spark2Neighbors, "eth0", "nodeB") # "NONE"
        /\ Armed(spark2Neighbors["eth0"]["nodeB"].heartbeatHoldTimer)
     THEN IF spark2Neighbors["eth0"]["nodeB"].heartbeatHoldTimer > 1
          THEN /\ spark2Neighbors' =
                    [spark2Neighbors EXCEPT !["eth0"]["nodeB"].heartbeatHoldTimer = @ - 1]
               /\ op' = Op("tick", "eth0", "nodeB", 0)
               /\ io' = <<>>
               /\ UNCHANGED <<enableV4, areaIdRegexList, interfaceDb,
                              ifNameToActiveNeighbors, allocatedLabels, mySeqNum,
                              ifNameToHelloTimers, ifNameToHeartbeatTimers,
                              timeSeriesVector, mcastGroups, neighborUpdatesQueue, pc>>
          ELSE LET s == processHeartbeatTimeout(Cur, "eth0", "nodeB")
               IN /\ WithinBounds(s)
                  /\ Handled(s, Op("heartbeatHoldTimer", "eth0", "nodeB", 0))
     ELSE /\ op' = Op("tick", "-", "-", 0)
          /\ io' = <<>>
          /\ UNCHANGED <<enableV4, areaIdRegexList, interfaceDb, spark2Neighbors,
                         ifNameToActiveNeighbors, allocatedLabels, mySeqNum,
                         ifNameToHelloTimers, ifNameToHeartbeatTimers,
                         timeSeriesVector, mcastGroups, neighborUpdatesQueue, pc>>

InitBeat == InitEngine({TRUE})

NextBeat ==
  \/ InterfaceUpdate(Snapshots, {QuietEnv})
  \/ RecvHello(BeatHellos)
  \/ RecvHandshake(LifeHandshakes)
  \/ BeatHeartbeat
  \/ BeatTick
  \/ TimeAdvance

SpecBeat == InitBeat /\ [][NextBeat]_vars

-----------------------------------------------------------------------------
(* Properties under SpecBeat.                                               *)

\* C33: a HEARTBEAT of a neighbor that is not tracked on the interface, or not
\* ESTABLISHED, changes nothing; of an ESTABLISHED neighbor it gives
\* heartbeatHoldTimer the whole heartbeatHoldTime again and changes nothing else:
\* the state stays, no event is published, nothing is sent.  So the timer fires
\* only when a whole heartbeatHoldTime has passed without a heartbeat.
C33_Heartbeat ==
  /\ [][op'.name = "heartbeat" =>
          \A a \in BeatHeartbeats :
            (LetIn(a) /\ BeatReceive(a)) =>
              LET n == a.pkt.msg.nodeName
              IN /\ UNCHANGED <<interfaceDb, ifNameToActiveNeighbors, allocatedLabels,
                                mySeqNum, ifNameToHelloTimers, ifNameToHeartbeatTimers,
                                mcastGroups, neighborUpdatesQueue>>
                 /\ io' = <<>>
                 /\ IF StateOf(spark2Neighbors, "eth0", n) = ESTABLISHED
                    THEN spark2Neighbors' =
                           [spark2Neighbors EXCEPT !["eth0"][n].heartbeatHoldTimer =
                              spark2Neighbors["eth0"][n].heartbeatHoldTime]
                    ELSE UNCHANGED spark2Neighbors]_vars
  /\ [][op'.name = "heartbeatHoldTimer" =>
          sinceHeartbeat' >= spark2Neighbors["eth0"]["nodeB"].heartbeatHoldTime]_vars

\* A heartbeat has found the ESTABLISHED neighbor and given its timer the whole
\* hold time.
C33_Witness ==
  /\ op.name = "heartbeat" /\ op.node = "nodeB" /\ op.info = "heartbeat"
  /\ StateOf(spark2Neighbors, "eth0", "nodeB") = ESTABLISHED
  /\ spark2Neighbors["eth0"]["nodeB"].heartbeatHoldTimer = myHeartbeatHoldTime
  /\ sinceHeartbeat = 0
  /\ Len(neighborUpdatesQueue) = 1

\* Time has passed since: the timer has three units left, four after the heartbeat.
C33_WitnessLater ==
  /\ op.name = "tick"
  /\ StateOf(spark2Neighbors, "eth0", "nodeB") = ESTABLISHED
  /\ spark2Neighbors["eth0"]["nodeB"].heartbeatHoldTimer = 3
  /\ sinceHeartbeat = 4

\* No heartbeat for a whole hold time: the timer has taken the neighbor down.
C33_WitnessTimeout ==
  /\ op.name = "heartbeatHoldTimer"
  /\ StateOf(spark2Neighbors, "eth0", "nodeB") = "NONE"
  /\ sinceHeartbeat = MaxSince
  /\ Len(neighborUpdatesQueue) = 2
  /\ neighborUpdatesQueue[2].eventType = NEIGHBOR_DOWN

\* Heartbeats of a neighbor in RESTART and of nodeC have been ignored.
C33_WitnessIgnored ==
  /\ op.name = "heartbeat" /\ op.node = "nodeC" /\ op.info = "unknown_neighbor"
  /\ StateOf(spark2Neighbors, "eth0", "nodeB") = RESTART

-----------------------------------------------------------------------------
(* SpecPair: two engines of one domain on a shared link, eth0 on either.    *)
(* Each engine is described in its own frame, in which it is myNodeName and *)
(* the other engine is nodeB: the code compares node names for equality and *)
(* does nothing else with them, so the link renames what it carries.        *)

MaxHelloTicks == 3    \* firings of one engine's hello timer

Engines == {"me", "peer"}

Other(who) == IF who = "me" THEN "peer" ELSE "me"

ThePeer == "nodeB"

\* The fields of a constructed engine.
NewEngine ==
  [interfaceDb |-> EmptyMap, spark2Neighbors |-> EmptyMap,
   ifNameToActiveNeighbors |-> EmptyMap, allocatedLabels |-> {}, mySeqNum |-> 1,
   ifNameToHelloTimers |-> {}, ifNameToHeartbeatTimers |-> {},
   timeSeriesVector |-> [i \in 0..(kNumTimeSeries - 1) |-> 0], mcastGroups |-> {},
   neighborUpdatesQueue |-> <<>>, io |-> <<>>, fsm |-> <<>>, res |-> "-",
   exc |-> FALSE, check |-> FALSE]

\* The fields of one of the two engines as a handler finds them.
Local(who) == IF who = "me" THEN Cur ELSE peer

Inbox(who) == IF who = "me" THEN wire.toMe ELSE wire.toPeer

\* The packet a send record stands for, as the other engine reads it: the
\* sender is nodeB there, and what the sender says of nodeB is said of the reader.
PacketOf(s, rec) ==
  LET ifName == CHOOSE i \in DOMAIN s.interfaceDb : s.interfaceDb[i].ifIndex = rec.ifIndex
      ifc == s.interfaceDb[ifName]
      reflected == ThePeer \in DOMAIN rec.neighborInfos
  IN CASE rec.type = "HELLO" ->
            Packet("hello",
                   HelloMsg(ThePeer, myDomainName, kLowestSupportedVersion, rec.seqNum,
                            rec.solicit, rec.restarting, reflected,
                            IF reflected THEN rec.neighborInfos[ThePeer] ELSE 0),
                   kSparkHopLimit, rec.ifIndex, TRUE)
       [] rec.type = "HANDSHAKE" ->
            Packet("handshake",
                   HandshakeMsg(ThePeer, rec.adjEst, myHeartbeatHoldTime, myHoldTime,
                                ifc.v6LinkLocalNetwork[1], ifc.v4Network[1], rec.area,
                                TRUE, IF rec.to = ThePeer THEN myNodeName ELSE rec.to),
                   kSparkHopLimit, rec.ifIndex, TRUE)
       [] OTHER ->
            Packet("heartbeat", HeartbeatMsg(ThePeer, rec.seqNum), kSparkHopLimit,
                   rec.ifIndex, TRUE)

\* The packets a handler has put on the link, in the order of its sends.
Sent(s) ==
  LET sends == SelectSeq(s.io, LAMBDA r : r.call = "send" /\ r.result = "sent")
  IN [i \in DOMAIN sends |-> PacketOf(s, sends[i])]

\* The link after engine `who` has run a handler that left `inbox` of its own
\* inbox and returned s: nothing is lost, nothing overtakes.
WireAfter(who, s, inbox) ==
  IF who = "me" THEN [toMe |-> inbox, toPeer |-> wire.toPeer \o Sent(s)]
  ELSE [toMe |-> wire.toMe \o Sent(s), toPeer |-> inbox]

\* A handler of engine `who` has returned s.
PairFinish(who, s, inbox, o) ==
  /\ op' = [o EXCEPT !.info = IF s.check THEN "CHECK" ELSE s.res]
  /\ UNCHANGED <<ifDbSnapshot, sinceHeartbeat>>
  /\ IF s.check
     THEN /\ pc' = "aborted"
          /\ UNCHANGED <<enableV4, areaIdRegexList, engineVars, io, peer, wire>>
     ELSE /\ pc' = pc
          /\ wire' = WireAfter(who, s, inbox)
          /\ IF who = "me"
             THEN Commit(s) /\ peer' = peer
             ELSE /\ peer' = [s EXCEPT !.io = <<>>, !.fsm = <<>>, !.res = "-"]
                  /\ UNCHANGED <<enableV4, areaIdRegexList, engineVars, io>>

\* eth0 as each engine's system reports it: ifIndex 1 on both, IPv4 addresses 1
\* and 2 of one /30, link-local addresses 1 and 2.
PairSnapshot(who) ==
  LET a == IF who = "me" THEN 1 ELSE 2
  IN [i \in IfNames |->
        IF i = "eth0" THEN IfInfo(TRUE, TRUE, 1, {<<a, 30>>}, {<<a, 64>>}) ELSE AbsentIf]

PairInterfaceUp(who) ==
  /\ pc = "running"
  /\ "eth0" \notin DOMAIN Local(who).interfaceDb
  /\ PairFinish(who, processInterfaceUpdates(Local(who), PairSnapshot(who), QuietEnv),
                Inbox(who), Op("ifupdate", "eth0", who, 0))
  /\ UNCHANGED helloTicks

\* A packet is carried and handled in far less than a timer's period: a timer
\* fires when nothing is in flight.
Quiet == wire.toMe = <<>> /\ wire.toPeer = <<>>

\* The two hello timers have one period: neither fires a second time before the
\* other has fired once.  The engines have just started: every firing falls in the
\* first 6 * myHelloFastInitTime, in which inFastInitState is true.
PairHelloTimer(who) ==
  /\ pc = "running"
  /\ "eth0" \in Local(who).ifNameToHelloTimers
  /\ helloTicks[who] < MaxHelloTicks
  /\ helloTicks[who] <= helloTicks[Other(who)]
  /\ Quiet
  /\ PairFinish(who, sendHelloMsg(Local(who), "eth0", TRUE, FALSE, QuietEnv),
                Inbox(who), Op("helloTimer", "eth0", who, 0))
  /\ helloTicks' = [helloTicks EXCEPT ![who] = @ + 1]

PairNegotiateTimer(who) ==
  /\ pc = "running"
  /\ "eth0" \in DOMAIN Local(who).spark2Neighbors
  /\ ThePeer \in DOMAIN Local(who).spark2Neighbors["eth0"]
  /\ Armed(Local(who).spark2Neighbors["eth0"][ThePeer].negotiateTimer)
  /\ Quiet
  /\ PairFinish(who, negotiateTimerCallback(Local(who), "eth0", ThePeer, QuietEnv),
                Inbox(who), Op("negotiateTimer", "eth0", who, 0))
  /\ UNCHANGED helloTicks

\* The socket callback of engine `who` for the packet at the head of its inbox.
\* Packets come a few per hello period, far below the rate limit: the rate
\* windows are empty when one arrives.
PairDeliver(who) ==
  /\ pc = "running"
  /\ Inbox(who) # <<>>
  /\ LET pkt == Head(Inbox(who))
         s0 == [Local(who) EXCEPT !.timeSeriesVector = [i \in DOMAIN @ |-> 0]]
     IN PairFinish(who, processPacket(s0, pkt, QuietEnv), Tail(Inbox(who)),
                   Op(pkt.kind, "eth0", who, pkt.hopLimit))
  /\ UNCHANGED helloTicks

InitPair ==
  /\ InitFields({TRUE})
  /\ peer = NewEngine
  /\ wire = [toMe |-> <<>>, toPeer |-> <<>>]
  /\ helloTicks = [me |-> 0, peer |-> 0]
  /\ sinceHeartbeat = 0

NextPair ==
  \/ \E who \in Engines : PairInterfaceUp(who)
  \/ \E who \in Engines : PairHelloTimer(who)
  \/ \E who \in Engines : PairNegotiateTimer(who)
  \/ \E who \in Engines : PairDeliver(who)

\* Interface updates are handed over, armed timers fire, packets arrive.  No
\* hold timer expires and no heartbeat is due: the bring-up is over before.
PairFairness ==
  /\ WF_vars(PairInterfaceUp("me")) /\ WF_vars(PairInterfaceUp("peer"))
  /\ WF_vars(PairHelloTimer("me")) /\ WF_vars(PairHelloTimer("peer"))
  /\ WF_vars(PairNegotiateTimer("me")) /\ WF_vars(PairNegotiateTimer("peer"))
  /\ WF_vars(PairDeliver("me")) /\ WF_vars(PairDeliver("peer"))

SpecPair == InitPair /\ [][NextPair]_vars /\ PairFairness

-----------------------------------------------------------------------------
(* Properties under SpecPair.                                               *)

\* The engine has the other one ESTABLISHED and active on eth0, and has
\* published NEIGHBOR_UP for it once.
BroughtUp(s) ==
  /\ StateOf(s.spark2Neighbors, "eth0", ThePeer) = ESTABLISHED
  /\ "eth0" \in DOMAIN s.ifNameToActiveNeighbors
  /\ s.ifNameToActiveNeighbors["eth0"] = {ThePeer}
  /\ CountEvents(s.neighborUpdatesQueue, NEIGHBOR_UP, ThePeer) = 1

-----------------------------------------------------------------------------
(* SpecStorm: the two engines of SpecPair when they may disagree: the peer's *)
(* IPv4 network may be one that does not hold our address, and under a       *)
(* configuration with areas each engine places the other in an area of its   *)
(* own.  V4 is enabled or not.                                               *)

\* eth0 as the peer's system may report it: in our /30, or in a /31 of its own.
StormSnapshots(who) ==
  IF who = "me" THEN {PairSnapshot("me")}
  ELSE { PairSnapshot("peer"),
         [i \in IfNames |->
            IF i = "eth0" THEN IfInfo(TRUE, TRUE, 1, {<<2, 31>>}, {<<2, 64>>})
            ELSE AbsentIf] }

StormInterfaceUp(who) ==
  /\ pc = "running"
  /\ "eth0" \notin DOMAIN Local(who).interfaceDb
  /\ \E snap \in StormSnapshots(who) :
       PairFinish(who, processInterfaceUpdates(Local(who), snap, QuietEnv),
                  Inbox(who), Op("ifupdate", "eth0", who, 0))
  /\ UNCHANGED helloTicks

\* Area names belong to each engine's configuration: under AreaConfig1 what one
\* engine calls area 1 is area 2 to the other.
StormPacket(pkt) ==
  IF pkt.kind = "handshake" /\ areaIdRegexList = AreaConfig1 /\ pkt.msg.area = "1"
  THEN [pkt EXCEPT !.msg.area = "2"]
  ELSE pkt

StormDeliver(who) ==
  /\ pc = "running"
  /\ Inbox(who) # <<>>
  /\ LET pkt == StormPacket(Head(Inbox(who)))
         s0 == [Local(who) EXCEPT !.timeSeriesVector = [i \in DOMAIN @ |-> 0]]
     IN PairFinish(who, processPacket(s0, pkt, QuietEnv), Tail(Inbox(who)),
                   Op(pkt.kind, "eth0", who, pkt.hopLimit))
  /\ UNCHANGED helloTicks

InitStorm ==
  /\ InitConfigured(BOOLEAN, {DefaultAreaConfig, AreaConfig1})
  /\ peer = NewEngine
  /\ wire = [toMe |-> <<>>, toPeer |-> <<>>]
  /\ helloTicks = [me |-> 0, peer |-> 0]
  /\ sinceHeartbeat = 0

NextStorm ==
  \/ \E who \in Engines : StormInterfaceUp(who)
  \/ \E who \in Engines : PairHelloTimer(who)
  \/ \E who \in Engines : PairNegotiateTimer(who)
  \/ \E who \in Engines : StormDeliver(who)

\* StormDeliver(who) can be taken exactly when this holds.
DeliverEnabled(who) == pc = "running" /\ Inbox(who) # <<>>

\* What is in flight arrives: WF_vars(StormDeliver(who)) for either engine, with
\* ENABLED <<StormDeliver(who)>>_vars written as the guard it amounts to.
StormFairness ==
  /\ []<>(~DeliverEnabled("me")) \/ []<><<StormDeliver("me")>>_vars
  /\ []<>(~DeliverEnabled("peer")) \/ []<><<StormDeliver("peer")>>_vars

SpecStorm == InitStorm /\ [][NextStorm]_vars /\ StormFairness

-----------------------------------------------------------------------------
(* Properties under SpecStorm.                                              *)

\* What the step has put on the link towards the other engine.
PutOnWire(who) ==
  IF who = "me" THEN SubSeq(wire'.toPeer, Len(wire.toPeer) + 1, Len(wire'.toPeer))
  ELSE SubSeq(wire'.toMe, Len(wire.toMe) + 1, Len(wire'.toMe))

\* C31: an engine that receives a HANDSHAKE of a tracked neighbor with
\* isAdjEstablished false sends exactly one handshake in reply, whose
\* isAdjEstablished is true iff the neighbor was not in NEGOTIATE on arrival; with
\* isAdjEstablished true it sends nothing.  Between two engines the replies
\* come to an end: whatever is in flight, the link falls quiet again, also
\* when a validation has sent one or both sides back to WARM.
C31_NoReplyStorm ==
  /\ [][\A who \in Engines :
          (/\ op'.name = "handshake" /\ op'.node = who /\ op'.info # "CHECK"
           /\ StormDeliver(who)
           /\ StateOf(Local(who).spark2Neighbors, "eth0", ThePeer) # "NONE") =>
            LET msg == Head(Inbox(who)).msg
                state == StateOf(Local(who).spark2Neighbors, "eth0", ThePeer)
                out == PutOnWire(who)
            IN IF msg.isAdjEstablished THEN out = <<>>
               ELSE /\ Len(out) = 1
                    /\ out[1].kind = "handshake"
                    /\ out[1].msg.isAdjEstablished = (state # NEGOTIATE)]_vars
  /\ (~Quiet) ~> Quiet

\* One side has failed a validation and is back in WARM while the other holds
\* it ESTABLISHED, and nothing is in flight.
C31_Witness ==
  /\ Quiet
  /\ StateOf(spark2Neighbors, "eth0", ThePeer) = ESTABLISHED
  /\ StateOf(peer.spark2Neighbors, "eth0", ThePeer) = WARM
  /\ op.name = "handshake" /\ op.node = "me" /\ op.info = "not_negotiate"

\* The areas disagree: an engine is back in WARM by the area check.
C31_WitnessArea ==
  /\ op.name = "handshake" /\ op.info = "area_failure"
  /\ areaIdRegexList = AreaConfig1

\* An engine in ESTABLISHED has answered a handshake that asked for a reply.
C31_WitnessSettled ==
  /\ op.name = "handshake" /\ op.node = "me" /\ op.info = "not_negotiate"
  /\ StateOf(spark2Neighbors, "eth0", ThePeer) = ESTABLISHED
  /\ StateOf(peer.spark2Neighbors, "eth0", ThePeer) = ESTABLISHED
  /\ Len(wire.toPeer) = 1 /\ wire.toPeer[1].msg.isAdjEstablished

-----------------------------------------------------------------------------
(* SpecSolicit: two engines on eth0 in their fast-init phase, while hellos   *)
(* of other nodes reach ours on eth0 and on a second interface until the     *)
(* labels run out.                                                           *)

MaxSolicitTicks == 1  \* firings of one engine's hello timer
MaxSolicitSeq == 4    \* replies to the other nodes stop at this seqNum

\* Our system reports eth0 as the peer sees it, with or without eth1.
SolicitSnapshots(who) ==
  IF who = "peer" THEN {PairSnapshot("peer")}
  ELSE { [i \in IfNames |-> IF i = "eth0" THEN PairSnapshot("me")[i] ELSE x] :
           x \in {AbsentIf, UpIf(2)} }

\* An interface update that adds an interface.
SolicitInterfaceUp(who) ==
  /\ pc = "running"
  /\ \E snap \in SolicitSnapshots(who) :
       /\ (DOMAIN NewInterfaceDb(snap)) \ (DOMAIN Local(who).interfaceDb) # {}
       /\ PairFinish(who, processInterfaceUpdates(Local(who), snap, QuietEnv),
                     Inbox(who), Op("ifupdate", "-", who, 0))
  /\ UNCHANGED helloTicks

\* The hello timer in the fast-init phase: the hello asks for a reply.
SolicitHelloTimer(who) ==
  /\ pc = "running"
  /\ "eth0" \in Local(who).ifNameToHelloTimers
  /\ helloTicks[who] < MaxSolicitTicks
  /\ Quiet
  /\ PairFinish(who, sendHelloMsg(Local(who), "eth0", TRUE, FALSE, QuietEnv),
                Inbox(who), Op("helloTimer", "eth0", who, 0))
  /\ helloTicks' = [helloTicks EXCEPT ![who] = @ + 1]

\* Hellos of other nodes, asking for a reply or not, and one of another domain.
SolicitHelloMsgs ==
  { HelloMsg(n, myDomainName, kLowestSupportedVersion, 1, sr, FALSE, FALSE, 0) :
      n \in NodeNames, sr \in BOOLEAN }
  \cup { HelloMsg("nodeC", "other", kLowestSupportedVersion, 1, TRUE, FALSE, FALSE, 0) }

\* On eth0 the name of the peer belongs to the peer, whose hellos come by the link.
ThirdHellos ==
  { a \in HelloArrivals(SolicitHelloMsgs, {kSparkHopLimit}, IfIndexes) :
      a.pkt.ifIndex = 1 => a.pkt.msg.nodeName # ThePeer }

\* The socket callback of our engine for a hello of another node, which comes
\* when nothing is in flight between the two engines; what our engine sends
\* reaches the peer as well.
SolicitThird(a) ==
  /\ pc = "running"
  /\ Quiet
  /\ LET s0 == [Cur EXCEPT !.timeSeriesVector = [i \in DOMAIN @ |-> 0]]
         s == processPacket(s0, a.pkt, a.env)
         found == findInterfaceFromIfindex(Cur, a.pkt.ifIndex)
     IN /\ s.mySeqNum <= MaxSolicitSeq
        /\ Cardinality(LeakedLabels(s.allocatedLabels)) <= MaxLeak
        /\ PairFinish("me", s, Inbox("me"),
                      Op("hello", IF found = {} THEN "-" ELSE CHOOSE i \in found : TRUE,
                         a.pkt.msg.nodeName, a.pkt.hopLimit))
  /\ UNCHANGED helloTicks

InitSolicit ==
  /\ InitConfigured({TRUE}, {DefaultAreaConfig, AreaConfig1})
  /\ peer = NewEngine
  /\ wire = [toMe |-> <<>>, toPeer |-> <<>>]
  /\ helloTicks = [me |-> 0, peer |-> 0]
  /\ sinceHeartbeat = 0

NextSolicit ==
  \/ \E who \in Engines : SolicitInterfaceUp(who)
  \/ \E who \in Engines : SolicitHelloTimer(who)
  \/ \E who \in Engines : PairDeliver(who)
  \/ \E a \in ThirdHellos : SolicitThird(a)

SpecSolicit == InitSolicit /\ [][NextSolicit]_vars

-----------------------------------------------------------------------------
(* Properties under SpecSolicit.                                            *)

\* The hello passes the sanity checks and, for a sender not tracked yet, the
\* area deduction.
PassesChecks(s, msg, ifName) ==
  /\ sanityCheckHelloPkt(msg.domainName, msg.nodeName, msg.version) = "SUCCESS"
  /\ \/ msg.nodeName \in DOMAIN s.spark2Neighbors[ifName]
     \/ getNeighborArea(msg.nodeName, ifName, areaIdRegexList) # <<>>

\* A sender not tracked yet can be given a label.
LabelFound(s, msg, ifName) ==
  \/ msg.nodeName \in DOMAIN s.spark2Neighbors[ifName]
  \/ ~getNewLabelForIface(s, ifName).thrown

\* What the handler has handed to the send path, whatever came of it.
SendsOf(calls) == SelectSeq(calls, LAMBDA c : c.call = "send")

\* The one reply our engine builds for the hello: a HELLO on the interface of
\* arrival that asks for no reply, bears our seqNum, and reflects the sender
\* with the seqNum recorded for it before the dispatch on its state.
OneReply(s, msg, ifName, calls) ==
  /\ Len(calls) = 1
  /\ calls[1].call = "send" /\ calls[1].type = "HELLO"
  /\ calls[1].ifIndex = s.interfaceDb[ifName].ifIndex
  /\ ~calls[1].solicit /\ ~calls[1].restarting
  /\ calls[1].seqNum = s.mySeqNum
  /\ msg.nodeName \in DOMAIN calls[1].neighborInfos
  /\ calls[1].neighborInfos[msg.nodeName] =
       IF msg.nodeName \in DOMAIN s.spark2Neighbors[ifName]
       THEN s.spark2Neighbors[ifName][msg.nodeName].seqNum
       ELSE msg.seqNum

\* What our engine does with a hello that has reached processHelloMsg.
RepliesOnce(msg, ifName, env) ==
  IF msg.solicitResponse /\ PassesChecks(Cur, msg, ifName) /\ LabelFound(Cur, msg, ifName)
  THEN /\ OneReply(Cur, msg, ifName, SendsOf(io'))
       /\ SendsOf(io')[1].result = (IF PacketTooBig(env.size) THEN "too_big"
                                    ELSE IF env.sendOk THEN "sent" ELSE "send_failed")
       /\ mySeqNum' = mySeqNum + 1
  ELSE SendsOf(io') = <<>> /\ mySeqNum' = mySeqNum

\* The same without the condition on the label.
RepliesAlways(msg, ifName) ==
  (msg.solicitResponse /\ PassesChecks(Cur, msg, ifName))
    => OneReply(Cur, msg, ifName, SendsOf(io'))

\* C40: a hello that asks for a reply, passes the sanity checks and the area
\* deduction and, if its sender is new, finds a label, makes the engine build
\* exactly one HELLO on that interface, handed to the socket unless it is over
\* 1280 bytes; the reply asks for no reply and reflects the sender as recorded
\* before the dispatch on its state (a sender created by this hello included).
\* Every other hello is answered by nothing.  Between the two engines: what the
\* peer puts on the link for a hello is at most one hello, none when the hello
\* asked for none, and it asks for no reply.
C40_SolicitedReply ==
  /\ [][op'.name = "hello" /\ op'.node = "me" =>
          LET pkt == Head(wire.toMe)
          IN IF "eth0" \in DOMAIN spark2Neighbors
             THEN RepliesOnce(pkt.msg, "eth0", QuietEnv)
             ELSE SendsOf(io') = <<>>]_vars
  /\ [][op'.name = "hello" /\ op'.node \in NodeNames =>
          \A a \in ThirdHellos :
            (/\ op'.node = a.pkt.msg.nodeName /\ op'.ifName # "-"
             /\ findInterfaceFromIfindex(Cur, a.pkt.ifIndex) = {op'.ifName}
             /\ SolicitThird(a)) => RepliesOnce(a.pkt.msg, op'.ifName, a.env)]_vars
  /\ [][op'.name = "hello" /\ op'.node = "peer" =>
          LET msg == Head(wire.toPeer).msg
              out == PutOnWire("peer")
          IN IF msg.solicitResponse /\ "eth0" \in DOMAIN peer.spark2Neighbors
             THEN /\ Len(out) = 1
                  /\ out[1].kind = "hello"
                  /\ ~out[1].msg.solicitResponse
                  /\ out[1].msg.hasInfo
             ELSE out = <<>>]_vars

\* C40 (as stated): every hello that asks for a reply and passes the sanity
\* checks and the area deduction is answered by one HELLO.
C40_ReplyWheneverSane ==
  [][op'.name = "hello" /\ op'.node \in NodeNames =>
       \A a \in ThirdHellos :
         (/\ op'.node = a.pkt.msg.nodeName /\ op'.ifName # "-"
          /\ findInterfaceFromIfindex(Cur, a.pkt.ifIndex) = {op'.ifName}
          /\ SolicitThird(a)) => RepliesAlways(a.pkt.msg, op'.ifName)]_vars

\* Our engine has answered the peer's first hello, which created the neighbor:
\* the reply on the link reflects the peer and asks for nothing.
C40_Witness ==
  /\ op.name = "hello" /\ op.node = "me"
  /\ StateOf(spark2Neighbors, "eth0", ThePeer) = WARM
  /\ Len(io) = 1 /\ io[1].type = "HELLO" /\ io[1].result = "sent" /\ ~io[1].solicit
  /\ ThePeer \in DOMAIN io[1].neighborInfos
  /\ Len(wire.toPeer) = 1 /\ wire.toPeer[1].msg.hasInfo
  /\ ~wire.toPeer[1].msg.solicitResponse

\* The peer has handled a reply of ours: nothing is in flight any more.
C40_WitnessQuiet ==
  /\ op.name = "hello" /\ op.node = "peer"
  /\ Quiet
  /\ helloTicks["peer"] = 1
  /\ StateOf(peer.spark2Neighbors, "eth0", ThePeer) # "NONE"
  /\ mySeqNum > 1

\* No label is left for the sender of a hello that asks for a reply: none is sent.
C40_WitnessExhausted ==
  /\ op.name = "hello" /\ op.node = "nodeC" /\ op.info = "label_exhausted"
  /\ io = <<>>

\* The area deduction finds nothing for the sender: no reply.
C40_WitnessNoArea ==
  /\ op.name = "hello" /\ op.node = "nodeB" /\ op.ifName = "eth1" /\ op.info = "no_area"
  /\ io = <<>>

\* The reply was over 1280 bytes and was not handed to the socket.
C40_WitnessTooBig ==
  /\ op.name = "hello" /\ op.node = "nodeC"
  /\ Len(io) = 1 /\ io[1].type = "HELLO" /\ io[1].result = "too_big"

====
